---- MODULE Spec2Model ----
(***************************************************************************)
(* A model of the JobMap API core: the jobs table and the upsert engine    *)
(* (lib/jobs.ts, lib/postgis.ts), the moderation routes (routes/admin.ts), *)
(* the search and suggestion routes with their Redis read-through cache    *)
(* (routes/jobs.ts, lib/redis.ts), the geocode resolver with its           *)
(* persistent cache (lib/geocode.ts), the source normalizers               *)
(* (ingest/*.ts) and the street-address maintenance scripts (scripts/*.ts).*)
(***************************************************************************)
EXTENDS Integers, Sequences, FiniteSets, TLC

VARIABLES
    jobs,        \* the jobs table: identity (source, sourceId) -> row
    nextId,      \* the next generated primary key
    now,         \* the database clock read by NOW()
    lastOp,      \* the last write operation on the table and what it returned
    procs,       \* the upsertJob calls in flight: where each is, and what it has read
    geocodeCache,\* the geocode_cache table: key -> <<lon, lat>>
    mapboxToken, \* whether MAPBOX_TOKEN is set in the environment
    geoLast,     \* the last direct geocodeAddress call (input, outcome, requests made)
                 \* and, when the call before it had the same cache key, that call's
                 \* outcome; the calls made inside the ingesters are not recorded
    redis,       \* whether the Redis client is configured (REDIS_URL set)
    cacheStore,  \* the Redis keyspace: cache key -> entry (JSON value, TTL)
    lastReq      \* the HTTP response being sent by the step just taken, if it was a request

storeVars == <<jobs, nextId, now, lastOp>>

geoVars == <<geocodeCache, mapboxToken, geoLast>>

cacheVars == <<redis, cacheStore, lastReq>>

vars == <<jobs, nextId, now, lastOp, procs, geocodeCache, mapboxToken, geoLast,
          redis, cacheStore, lastReq>>

(***************************************************************************)
(* Values                                                                  *)
(***************************************************************************)
Undefined == "undefined"      \* an omitted status property
Null == <<>>                  \* SQL NULL, JavaScript null or undefined, in a nullable field
Some(v) == <<v>>              \* a present value of a nullable field
NoRow == [id |-> 0]           \* "no row" where a row is expected

JobStatus == {"APPROVED", "PENDING", "REJECTED"}

\* A keyed table with the row of key `key` written: both tables have a unique
\* key (jobs: the index on (source, sourceId); geocode_cache: its primary key).
Put(table, key, row) ==
    [k \in DOMAIN table \cup {key} |-> IF k = key THEN row ELSE table[k]]

\* <<longitude, latitude>> pairs
CoordPhoenix == <<-112, 33>>
CoordTempe == <<-111, 33>>

\* The largest value of the database clock in a run.
MaxNow == 2

\* Texts are sequences of characters, so that LOWER() and LIKE can be computed.
TitleNurse == <<"R", "N">>
TitleDev == <<"D", "e", "v">>
CompanyAcme == <<"A", "c", "m", "e">>

\* descriptions: one without an address, one that contains "2 Oak St"
DescPlain == <<"R", "N", " ", "j", "o", "b">>
DescWithAddress == <<"a", "t", " ", "2", " ", "O", "a", "k", " ", "S", "t">>

StreetMain == <<"1", " ", "M", "a", "i", "n">>
StreetOak == <<"2", " ", "O", "a", "k", " ", "S", "t">>
EmptyText == <<>>

(***************************************************************************)
(* Text: LOWER / toLowerCase, trim, join                                   *)
(***************************************************************************)
UpperLetters == <<"A", "B", "C", "D", "E", "F", "G", "H", "I", "J", "K", "L", "M",
                  "N", "O", "P", "Q", "R", "S", "T", "U", "V", "W", "X", "Y", "Z">>
LowerLetters == <<"a", "b", "c", "d", "e", "f", "g", "h", "i", "j", "k", "l", "m",
                  "n", "o", "p", "q", "r", "s", "t", "u", "v", "w", "x", "y", "z">>

LowerChar(c) ==
    IF \E i \in DOMAIN UpperLetters : UpperLetters[i] = c
    THEN LowerLetters[CHOOSE i \in DOMAIN UpperLetters : UpperLetters[i] = c]
    ELSE c

\* text.toLowerCase()
ToLower(text) == [i \in DOMAIN text |-> LowerChar(text[i])]

RECURSIVE TrimStart(_)
TrimStart(text) ==
    IF text # <<>> /\ Head(text) = " " THEN TrimStart(Tail(text)) ELSE text

RECURSIVE TrimEnd(_)
TrimEnd(text) ==
    IF text # <<>> /\ text[Len(text)] = " "
    THEN TrimEnd(SubSeq(text, 1, Len(text) - 1))
    ELSE text

\* text.trim()
Trim(text) == TrimEnd(TrimStart(text))

\* parts.join(sep)
RECURSIVE Join(_, _)
Join(parts, sep) ==
    IF parts = <<>> THEN <<>>
    ELSE IF Len(parts) = 1 THEN parts[1]
    ELSE parts[1] \o sep \o Join(Tail(parts), sep)

CommaSpace == <<",", " ">>

(***************************************************************************)
(* lib/geocode.ts: forward geocoding with the persistent cache             *)
(***************************************************************************)
\* A truthy optional string: present and not "".
Truthy(v) == v # Null /\ v[1] # <<>>

TextUS == <<"U", "S">>

\* normalizeAddressKey(address)
normalizeAddressKey(address) ==
    LET parts == <<address.street, address.city, address.state, address.postalCode,
                   IF Truthy(address.country) THEN address.country ELSE Some(TextUS)>>
        kept == SelectSeq(parts, Truthy)
    IN  Join([i \in DOMAIN kept |-> Trim(ToLower(kept[i][1]))], CommaSpace)

\* The query string of geocodeWithMapbox.
MapboxQuery(address) ==
    LET parts == <<address.street, address.city, address.state, address.postalCode,
                   address.country>>
        kept == SelectSeq(parts, Truthy)
    IN  Join([i \in DOMAIN kept |-> kept[i][1]], CommaSpace)

\* What the geocoding service may answer to the main query: a network error,
\* a non-ok status, no feature, or a feature with a centre.
GeoPoints == {CoordPhoenix, CoordTempe}

MainResponses ==
    { [kind |-> k, center |-> <<0, 0>>] : k \in {"throws", "notok", "empty"} }
    \cup { [kind |-> "feature", center |-> c] : c \in GeoPoints }

NoRequestsForCity(address) == 0

\* The city-proximity lookup is made when city and state are both present;
\* whatever it answers, only the proximity parameter depends on it.
CityRequests(address) ==
    IF Truthy(address.city) /\ Truthy(address.state) THEN 1 ELSE 0

\* geocodeWithMapbox(address): the result or a throw, and the requests made.
geocodeWithMapbox(address, token, main) ==
    IF ~token \/ MapboxQuery(address) = <<>>
    THEN [threw |-> TRUE, center |-> <<0, 0>>, requests |-> 0]
    ELSE [threw |-> main.kind # "feature",
          center |-> main.center,
          requests |-> CityRequests(address) + 1]

TextAZ == <<"A", "Z">>
TextPhoenix == <<"P", "h", "o", "e", "n", "i", "x">>
TextCentralAve == <<"1", "2", "3", " ", "N", " ", "C", "e", "n", "t", "r", "a", "l",
                    " ", "A", "v", "e">>
Text85004 == <<"8", "5", "0", "0", "4">>

Address(street, city, state, postalCode, country) ==
    [street |-> street, city |-> city, state |-> state, postalCode |-> postalCode,
     country |-> country]

\* street 123 N Central Ave, city Phoenix, state AZ, postal code 85004, country US
AddressCentralAve ==
    Address(Some(TextCentralAve), Some(TextPhoenix), Some(TextAZ), Some(Text85004),
            Some(TextUS))

\* the same address written in another case, padded, with the country left out
AddressCentralAveLoose ==
    Address(Some(ToLower(TextCentralAve)), Some(TextPhoenix \o <<" ">>), Some(TextAZ),
            Some(Text85004), Null)

AddressPhoenix == Address(Null, Some(TextPhoenix), Some(TextAZ), Null, Some(TextUS))

AddressCountryOnly == Address(Null, Null, Null, Null, Some(TextUS))

AddressEmpty == Address(Null, Null, Null, Null, Null)

GeoAddresses ==
    {AddressCentralAve, AddressCentralAveLoose, AddressPhoenix, AddressCountryOnly,
     AddressEmpty}

\* normalizeAddressKey, computed once for each of these addresses
AddressKey == [a \in GeoAddresses |-> normalizeAddressKey(a)]

KeyOf(address) ==
    IF address \in GeoAddresses THEN AddressKey[address] ELSE normalizeAddressKey(address)

geocodeAddressNoCacheRead(cache, address, token, readOk, main, writeOk) ==
    LET key == KeyOf(address)
        res == geocodeWithMapbox(address, token, main)
    IN  [cache |-> IF ~res.threw /\ writeOk THEN Put(cache, key, res.center) ELSE cache,
         threw |-> res.threw, center |-> res.center, requests |-> res.requests,
         read |-> "miss",
         written |-> ~res.threw /\ writeOk]

geocodeAddressCacheFailureThrows(cache, address, token, readOk, main, writeOk) ==
    LET key == KeyOf(address)
    IN  IF ~readOk
        THEN [cache |-> cache, threw |-> TRUE, center |-> <<0, 0>>,
              requests |-> 0, read |-> "failed", written |-> FALSE]
        ELSE IF key \in DOMAIN cache
        THEN [cache |-> cache, threw |-> FALSE, center |-> cache[key],
              requests |-> 0, read |-> "hit", written |-> FALSE]
        ELSE LET res == geocodeWithMapbox(address, token, main)
             IN  [cache |-> IF ~res.threw /\ writeOk
                            THEN Put(cache, key, res.center) ELSE cache,
                  threw |-> res.threw \/ ~writeOk, center |-> res.center,
                  requests |-> res.requests, read |-> "miss",
                  written |-> ~res.threw /\ writeOk]

\* geocodeAddress(address) against cache table `cache`: readOk and writeOk say
\* whether the cache lookup and the cache upsert succeed, main is the service's
\* answer to the main query, if it is asked.
geocodeAddress(cache, address, token, readOk, main, writeOk) ==
    LET key == KeyOf(address)
    IN  IF readOk /\ key \in DOMAIN cache
        THEN [cache |-> cache, threw |-> FALSE, center |-> cache[key],
              requests |-> 0, read |-> "hit", written |-> FALSE]
        ELSE LET res == geocodeWithMapbox(address, token, main)
             IN  [cache |-> IF ~res.threw /\ writeOk
                            THEN Put(cache, key, res.center) ELSE cache,
                  threw |-> res.threw, center |-> res.center,
                  requests |-> res.requests,
                  read |-> IF readOk THEN "miss" ELSE "failed",
                  written |-> ~res.threw /\ writeOk]

NoGeoCall == [called |-> FALSE]

GeoOutcome(res, emptyBefore) ==
    [called |-> TRUE, threw |-> res.threw, center |-> res.center,
     requests |-> res.requests, read |-> res.read, written |-> res.written,
     emptyBefore |-> emptyBefore]

\* One complete geocodeAddress(address) call.
Forward(address) ==
    \E readOk \in BOOLEAN, writeOk \in BOOLEAN, main \in MainResponses :
        LET res == geocodeAddress(geocodeCache, address, mapboxToken, readOk, main, writeOk)
        IN  /\ geocodeCache' = res.cache
            /\ geoLast' = [address |-> address, key |-> AddressKey[address],
                           out |-> GeoOutcome(res, geocodeCache = <<>>),
                           prior |-> IF geoLast.out.called
                                        /\ geoLast.key = AddressKey[address]
                                     THEN [geoLast.out EXCEPT !.called = TRUE]
                                          @@ [address |-> geoLast.address]
                                     ELSE NoGeoCall]
            /\ UNCHANGED mapboxToken

ForwardAny == \E address \in GeoAddresses : Forward(address)

GeoIdle ==
    /\ geocodeCache = <<>>
    /\ mapboxToken = TRUE
    /\ geoLast = [address |-> AddressEmpty, key |-> <<>>, out |-> NoGeoCall,
                  prior |-> NoGeoCall]

\* No request has been answered by the step just taken.
NoRequest == [route |-> "none"]

CacheIdle ==
    /\ redis = FALSE
    /\ cacheStore = <<>>
    /\ lastReq = NoRequest

(***************************************************************************)
(* lib/jobs.ts                                                             *)
(***************************************************************************)
\* v ?? null, for a nullable column
OrNull(v) == v

\* v ?? d, for a column with a default
OrDefault(v, d) == IF v = Null THEN d ELSE v[1]

\* ST_SetSRID(ST_MakePoint(longitude, latitude), 4326)
MakePoint(longitude, latitude) == <<longitude, latitude>>

IdentityOf(data) == <<data.source, data.sourceId>>

\* !data.sourceId || data.sourceId.trim() === ""
SourceIdMissing(data) == data.sourceId \in {"", " "}

defaultStatusAlwaysApproved(data) ==
    IF data.status # Undefined THEN data.status ELSE "APPROVED"

\* data.status || (data.source === MANUAL ? PENDING : APPROVED)
defaultStatus(data) ==
    IF data.status # Undefined
    THEN data.status
    ELSE IF data.source = "MANUAL" THEN "PENDING" ELSE "APPROVED"

\* The INSERT INTO jobs (...) VALUES (...) statement of the insert branch.
InsertRow(data, id, t) ==
    [id |-> id,
     source |-> data.source,
     sourceId |-> data.sourceId,
     title |-> data.title,
     company |-> data.company,
     description |-> data.description,
     url |-> data.url,
     street |-> OrNull(data.street),
     city |-> OrNull(data.city),
     state |-> OrNull(data.state),
     postalCode |-> OrNull(data.postalCode),
     country |-> OrDefault(data.country, TextUS),
     latitude |-> data.latitude,
     longitude |-> data.longitude,
     locationPoint |-> MakePoint(data.longitude, data.latitude),
     employmentType |-> OrNull(data.employmentType),
     payMin |-> OrNull(data.payMin),
     payMax |-> OrNull(data.payMax),
     payCurrency |-> OrDefault(data.payCurrency, "USD"),
     status |-> defaultStatus(data),
     postedAt |-> data.postedAt,
     createdAt |-> t,
     updatedAt |-> t]

UpdateStatusOverwritten(row, data) == defaultStatus(data)

\* ${data.status !== undefined ? `, status = $17` : ''}
UpdateStatus(row, data) ==
    IF data.status # Undefined THEN data.status ELSE row.status

\* The UPDATE jobs SET ... WHERE id = existing.id statement of the update branch.
UpdateRow(row, data, t) ==
    [row EXCEPT
        !.title = data.title,
        !.company = data.company,
        !.description = data.description,
        !.url = data.url,
        !.street = OrNull(data.street),
        !.city = OrNull(data.city),
        !.state = OrNull(data.state),
        !.postalCode = OrNull(data.postalCode),
        !.country = OrDefault(data.country, TextUS),
        !.latitude = data.latitude,
        !.longitude = data.longitude,
        !.employmentType = OrNull(data.employmentType),
        !.payMin = OrNull(data.payMin),
        !.payMax = OrNull(data.payMax),
        !.payCurrency = OrDefault(data.payCurrency, "USD"),
        !.postedAt = data.postedAt,
        !.updatedAt = t,
        !.status = UpdateStatus(row, data)]

\* setJobLocationPoint(id, longitude, latitude)
setJobLocationPoint(row, longitude, latitude) ==
    [row EXCEPT !.locationPoint = MakePoint(longitude, latitude)]

UpdateExistingStalePoint(existing, data, t) == UpdateRow(existing, data, t)

\* The update branch: the UPDATE, then the point only if the coordinates that
\* the existence check read differ from the input's.
UpdateExisting(existing, data, t) ==
    LET updated == UpdateRow(existing, data, t)
    IN  IF existing.latitude # data.latitude \/ existing.longitude # data.longitude
        THEN setJobLocationPoint(updated, data.longitude, data.latitude)
        ELSE updated

RowOf(table, key) == IF key \in DOMAIN table THEN table[key] ELSE NoRow

upsertJobAlwaysInserts(table, data, id, t) ==
    IF SourceIdMissing(data)
    THEN [table |-> table, threw |-> TRUE, created |-> FALSE, job |-> NoRow]
    ELSE LET row == InsertRow(data, id, t)
         IN  [table |-> Put(table, IdentityOf(data), row),
              threw |-> FALSE, created |-> TRUE, job |-> row]

\* upsertJob(data) run alone against table `table` at clock t: the table
\* afterwards and what the call returns ({job, created}) or that it threw.
upsertJob(table, data, id, t) ==
    IF SourceIdMissing(data)
    THEN [table |-> table, threw |-> TRUE, created |-> FALSE, job |-> NoRow]
    ELSE LET key == IdentityOf(data)
         IN  IF key \in DOMAIN table
             THEN LET row == UpdateExisting(table[key], data, t)
                  IN  [table |-> Put(table, key, row),
                       threw |-> FALSE, created |-> FALSE, job |-> row]
             ELSE LET row == InsertRow(data, id, t)
                  IN  [table |-> Put(table, key, row),
                       threw |-> FALSE, created |-> TRUE, job |-> row]

(***************************************************************************)
(* Inputs of the upsert specification                                      *)
(***************************************************************************)
Identities == {<<"ADZUNA", "a1">>, <<"MANUAL", "m1">>}

JobInput(source, sourceId, title, street, coord, status) ==
    [source |-> source, sourceId |-> sourceId, title |-> title,
     company |-> CompanyAcme, description |-> DescPlain, url |-> "https://jobs/1",
     street |-> street, city |-> Some(TextPhoenix), state |-> Some(TextAZ),
     postalCode |-> Null, country |-> Null,
     latitude |-> coord[2], longitude |-> coord[1],
     employmentType |-> Null, payMin |-> Null, payMax |-> Null, payCurrency |-> Null,
     postedAt |-> 0, status |-> status]

UpsertInputs ==
    { JobInput(k[1], k[2], TitleNurse, Some(StreetMain), CoordPhoenix, s) :
        k \in Identities, s \in {Undefined, "APPROVED", "REJECTED"} }
    \cup { [JobInput(k[1], k[2], TitleDev, Null, CoordTempe, Undefined)
                EXCEPT !.country = Some(<<"C", "A">>), !.payMin = Some(10), !.city = Null,
                       !.description = DescWithAddress, !.payCurrency = Some("CAD")] :
            k \in Identities }
    \cup { JobInput("ADZUNA", "", TitleNurse, Some(StreetMain), CoordPhoenix, Undefined) }

(***************************************************************************)
(* Actions on the jobs table                                               *)
(***************************************************************************)
NoData == [source |-> "none", sourceId |-> "none"]

\* seq alternates from one write operation to the next; repeat says that the
\* call repeated the input of the call right before it, which had inserted.
Op(name, data, res, seq, repeat) ==
    [op |-> name, data |-> data, threw |-> res.threw, created |-> res.created,
     seq |-> seq, repeat |-> repeat]

NoResult == [threw |-> FALSE, created |-> FALSE]

\* One complete upsertJob(data) call.
Upsert(data) ==
    LET res == upsertJob(jobs, data, nextId, now)
    IN  /\ jobs' = res.table
        /\ nextId' = IF res.created THEN nextId + 1 ELSE nextId
        /\ lastOp' = Op("upsert", data, res, 1 - lastOp.seq,
                         lastOp.op = "upsert" /\ lastOp.created /\ lastOp.data = data)
        /\ UNCHANGED now

UpsertAny == \E data \in UpsertInputs : Upsert(data)

\* POST /v1/admin/jobs/:id/approve and /reject: 404 when no row has the id.
SetStatus(key, status) ==
    /\ jobs' = [jobs EXCEPT ![key].status = status]
    /\ lastOp' = Op("moderate", NoData, NoResult, 1 - lastOp.seq, FALSE)
    /\ UNCHANGED <<nextId, now>>

AdminApprove == \E key \in DOMAIN jobs : SetStatus(key, "APPROVED")

AdminReject == \E key \in DOMAIN jobs : SetStatus(key, "REJECTED")

\* Time passes between two statements.
Tick ==
    /\ now < MaxNow
    /\ now' = now + 1
    /\ UNCHANGED <<jobs, nextId, lastOp>>

StoreInit ==
    /\ jobs = <<>>
    /\ nextId = 1
    /\ now = 0
    /\ lastOp = Op("none", NoData, NoResult, 0, FALSE)

Idle == [pc |-> "idle"]

NoProcs == [p \in {} |-> Idle]

UpsertInit == StoreInit /\ procs = NoProcs /\ GeoIdle /\ CacheIdle

UpsertNext ==
    \/ UpsertAny /\ UNCHANGED <<procs, geoVars, cacheVars>>
    \/ AdminApprove /\ UNCHANGED <<procs, geoVars, cacheVars>>
    \/ AdminReject /\ UNCHANGED <<procs, geoVars, cacheVars>>
    \/ Tick /\ UNCHANGED <<procs, geoVars, cacheVars>>

SpecUpsert == UpsertInit /\ [][UpsertNext]_vars

(***************************************************************************)
(* upsertJob calls whose statements interleave                             *)
(***************************************************************************)
Procs == {"p1", "p2"}

RaceKey == <<"ADZUNA", "a1">>

RaceInputs ==
    { JobInput(RaceKey[1], RaceKey[2], ti, Some(StreetMain), co, Undefined) :
        ti \in {TitleNurse, TitleDev}, co \in {CoordPhoenix, CoordTempe} }

NoExisting == [id |-> 0]

\* SELECT id, latitude, longitude FROM jobs WHERE source = $1 AND "sourceId" = $2
ExistenceCheck(table, data) ==
    IF IdentityOf(data) \in DOMAIN table
    THEN LET row == table[IdentityOf(data)]
         IN  [id |-> row.id, latitude |-> row.latitude, longitude |-> row.longitude]
    ELSE NoExisting

\* The call starts: the existence check runs and its result is kept.
RaceCheck(p, data) ==
    /\ procs[p].pc = "idle"
    /\ procs' = [procs EXCEPT ![p] = [pc |-> "checked", data |-> data,
                                       existing |-> ExistenceCheck(jobs, data)]]
    /\ UNCHANGED <<storeVars, geoVars, cacheVars>>

\* The UPDATE of the update branch, by the id the existence check returned.
RaceUpdate(p) ==
    /\ procs[p].pc = "checked"
    /\ procs[p].existing # NoExisting
    /\ jobs' = [jobs EXCEPT ![IdentityOf(procs[p].data)] = UpdateRow(@, procs[p].data, now)]
    /\ procs' = [procs EXCEPT ![p].pc = "updated"]
    /\ UNCHANGED <<nextId, now, lastOp, geoVars, cacheVars>>

\* The INSERT of the insert branch: the unique index on (source, sourceId)
\* rejects it when a row of the identity has appeared since the check.
RaceInsert(p) ==
    /\ procs[p].pc = "checked"
    /\ procs[p].existing = NoExisting
    /\ nextId' = nextId + 1
    /\ IF IdentityOf(procs[p].data) \in DOMAIN jobs
       THEN /\ procs' = [procs EXCEPT ![p].pc = "conflict"]
            /\ UNCHANGED jobs
       ELSE /\ jobs' = Put(jobs, IdentityOf(procs[p].data),
                           InsertRow(procs[p].data, nextId, now))
            /\ procs' = [procs EXCEPT ![p].pc = "created"]
    /\ UNCHANGED <<now, lastOp, geoVars, cacheVars>>

\* After the UPDATE: the point is rewritten only if the coordinates read by the
\* existence check differ from the input's; then the row is fetched and returned.
RacePoint(p) ==
    /\ procs[p].pc = "updated"
    /\ LET d == procs[p].data
           e == procs[p].existing
       IN  jobs' = IF e.latitude # d.latitude \/ e.longitude # d.longitude
                   THEN [jobs EXCEPT ![IdentityOf(d)] =
                            setJobLocationPoint(@, d.longitude, d.latitude)]
                   ELSE jobs
    /\ procs' = [procs EXCEPT ![p].pc = "returned"]
    /\ UNCHANGED <<nextId, now, lastOp, geoVars, cacheVars>>

RaceTick == Tick /\ UNCHANGED <<procs, geoVars, cacheVars>>

\* The table is empty, or holds the row an earlier run inserted.
RaceInit ==
    /\ \E table \in {<<>>} \cup
            { Put(<<>>, RaceKey, InsertRow(d, 1, 0)) : d \in RaceInputs } :
          /\ jobs = table
          /\ nextId = IF table = <<>> THEN 1 ELSE 2
    /\ now = 0
    /\ lastOp = Op("none", NoData, NoResult, 0, FALSE)
    /\ procs = [p \in Procs |-> Idle]
    /\ GeoIdle
    /\ CacheIdle

RaceNext ==
    \/ \E p \in Procs, data \in RaceInputs : RaceCheck(p, data)
    \/ \E p \in Procs : RaceUpdate(p)
    \/ \E p \in Procs : RaceInsert(p)
    \/ \E p \in Procs : RacePoint(p)
    \/ RaceTick

SpecRace == RaceInit /\ [][RaceNext]_vars

\* C4: upsert is one atomic insert-or-update on (source, sourceId): when two
\* calls for one identity interleave their statements, no call fails with an
\* identity conflict and exactly one row of the identity exists afterwards.
C4_NoIdentityConflict ==
    \A p \in Procs :
        /\ procs[p].pc # "conflict"
        /\ procs[p].pc \in {"created", "returned"}
            => Cardinality({k \in DOMAIN jobs : k = RaceKey}) = 1

(***************************************************************************)
(* Properties of the upsert engine                                         *)
(***************************************************************************)
\* The step is a completed upsertJob call that did not throw.
UpsertStep ==
    /\ lastOp'.seq # lastOp.seq
    /\ lastOp'.op = "upsert"
    /\ ~lastOp'.threw

\* C2: an upsert without a status onto an existing identity leaves the stored
\* status as it was, and every other mutable column takes the input's value.
C2_ReingestKeepsStatus ==
    [][ (UpsertStep /\ IdentityOf(lastOp'.data) \in DOMAIN jobs
            /\ lastOp'.data.status = Undefined)
        => LET d == lastOp'.data
               old == jobs[IdentityOf(d)]
               new == jobs'[IdentityOf(d)]
           IN  /\ new.status = old.status
               /\ new.title = d.title
               /\ new.company = d.company
               /\ new.description = d.description
               /\ new.url = d.url
               /\ new.street = d.street
               /\ new.city = d.city
               /\ new.state = d.state
               /\ new.postalCode = d.postalCode
               /\ new.country = (IF d.country = Null THEN TextUS ELSE d.country[1])
               /\ new.latitude = d.latitude
               /\ new.longitude = d.longitude
               /\ new.employmentType = d.employmentType
               /\ new.payMin = d.payMin
               /\ new.payMax = d.payMax
               /\ new.payCurrency = (IF d.payCurrency = Null THEN "USD" ELSE d.payCurrency[1])
               /\ new.postedAt = d.postedAt ]_vars

\* A rejected ADZUNA row (whose insert default would be APPROVED) has just been
\* re-ingested without a status, with other columns changed.
C2_Witness ==
    /\ lastOp.op = "upsert" /\ ~lastOp.created /\ ~lastOp.threw
    /\ lastOp.data.status = Undefined
    /\ lastOp.data.source = "ADZUNA"
    /\ lastOp.data.title = TitleDev
    /\ jobs[IdentityOf(lastOp.data)].status = "REJECTED"

\* C3: the second of two consecutive upserts of one input, the first of which
\* inserted, returns created = false and leaves the row as it was but for
\* updatedAt; no further row is created.
C3_SecondUpsertIdempotent ==
    [][ (UpsertStep /\ lastOp'.repeat)
        => LET k == IdentityOf(lastOp'.data)
           IN  /\ lastOp.created
               /\ ~lastOp'.created
               /\ DOMAIN jobs' = DOMAIN jobs
               /\ nextId' = nextId
               /\ [jobs'[k] EXCEPT !.updatedAt = 0] = [jobs[k] EXCEPT !.updatedAt = 0] ]_vars

\* The same input has been upserted twice in a row, at different clock values.
C3_Witness ==
    /\ lastOp.op = "upsert" /\ lastOp.repeat /\ ~lastOp.created
    /\ jobs[IdentityOf(lastOp.data)].updatedAt > jobs[IdentityOf(lastOp.data)].createdAt

\* C5: an inserting upsert stores the supplied status, or, without one,
\* PENDING for source MANUAL and APPROVED for every other source.
C5_InsertDefaultStatus ==
    (lastOp.op = "upsert" /\ lastOp.created)
    => LET d == lastOp.data
       IN  jobs[IdentityOf(d)].status =
             IF d.status \in JobStatus THEN d.status
             ELSE IF d.source = "MANUAL" THEN "PENDING" ELSE "APPROVED"

\* A MANUAL posting has just been inserted without a status.
C5_Witness ==
    /\ lastOp.op = "upsert" /\ lastOp.created
    /\ lastOp.data.source = "MANUAL" /\ lastOp.data.status = Undefined
    /\ jobs[IdentityOf(lastOp.data)].status = "PENDING"

(***************************************************************************)
(* The geocode resolver on its own                                         *)
(***************************************************************************)
GeoInit ==
    /\ geocodeCache = <<>>
    /\ mapboxToken \in BOOLEAN
    /\ geoLast = [address |-> AddressEmpty, key |-> <<>>, out |-> NoGeoCall,
                  prior |-> NoGeoCall]
    /\ StoreInit
    /\ procs = NoProcs
    /\ CacheIdle

GeoNext ==
    \/ ForwardAny /\ UNCHANGED <<storeVars, procs, cacheVars>>

SpecGeo == GeoInit /\ [][GeoNext]_vars

\* The last call followed an earlier call with the same cache key.
GeoPair == geoLast.out.called /\ geoLast.prior.called

CentralAveTwice ==
    /\ GeoPair
    /\ geoLast.address = AddressCentralAve
    /\ geoLast.prior.address = AddressCentralAve
    /\ geoLast.prior.emptyBefore
    /\ ~geoLast.prior.threw /\ geoLast.prior.written
    /\ geoLast.out.read # "failed"

getCacheKey(prefix, params) == <<prefix, params>>

\* JSON.stringify(value) and JSON.parse(text): a JSON document is kept apart
\* from the value it encodes. The value is a tree: an object is the map of its
\* defined properties.
JSONstringify(tree) == <<"json", tree>>

JSONparse(text) == text[2]

getCacheThrowing(store, client, key, readOk) ==
    IF ~client THEN [threw |-> FALSE, value |-> Null]
    ELSE IF ~readOk THEN [threw |-> TRUE, value |-> Null]
    ELSE IF key \notin DOMAIN store THEN [threw |-> FALSE, value |-> Null]
    ELSE [threw |-> FALSE, value |-> Some(JSONparse(store[key].value))]

getCacheNeverHits(store, client, key, readOk) ==
    [threw |-> FALSE, value |-> Null]

\* getCache(key): null without a client, on a failed read and on a missing
\* key; otherwise the parsed value. It never throws.
getCache(store, client, key, readOk) ==
    IF ~client THEN [threw |-> FALSE, value |-> Null]
    ELSE IF ~readOk THEN [threw |-> FALSE, value |-> Null]
    ELSE IF key \notin DOMAIN store THEN [threw |-> FALSE, value |-> Null]
    ELSE [threw |-> FALSE, value |-> Some(JSONparse(store[key].value))]

\* setCache(key, value, ttl): SETEX of the JSON text; false without a client
\* and on a failed write.
setCache(store, client, key, value, ttl, writeOk) ==
    IF ~client \/ ~writeOk
    THEN [store |-> store, ok |-> FALSE]
    ELSE [store |-> Put(store, key, [value |-> JSONstringify(value), ttl |-> ttl]),
          ok |-> TRUE]

(***************************************************************************)
(* SQL text operators                                                      *)
(***************************************************************************)
\* text LIKE pattern, with the wildcards % and _
RECURSIVE Like(_, _)
Like(text, pattern) ==
    IF pattern = <<>> THEN text = <<>>
    ELSE IF Head(pattern) = "%"
         THEN Like(text, Tail(pattern)) \/ (text # <<>> /\ Like(Tail(text), pattern))
         ELSE /\ text # <<>>
              /\ Head(pattern) = "_" \/ Head(pattern) = Head(text)
              /\ Like(Tail(text), Tail(pattern))

\* `%${term.toLowerCase()}%`
ContainsPattern(term) == <<"%">> \o ToLower(term) \o <<"%">>

\* ORDER BY on a text column: byte order of the characters used here
Alphabet == <<" ", "0", "1", "2", "3", "4", "5", "6", "7", "8", "9">>
            \o UpperLetters \o LowerLetters

CharRank(c) == CHOOSE i \in DOMAIN Alphabet : Alphabet[i] = c

RECURSIVE TextLess(_, _)
TextLess(a, b) ==
    IF b = <<>> THEN FALSE
    ELSE IF a = <<>> THEN TRUE
    ELSE IF Head(a) = Head(b) THEN TextLess(Tail(a), Tail(b))
    ELSE CharRank(Head(a)) < CharRank(Head(b))

\* The texts of set S in ascending order.
SortedTexts(S) ==
    LET n == Cardinality(S)
    IN  CHOOSE s \in [1..n -> S] : \A i, j \in 1..n : i < j => TextLess(s[i], s[j])

LimitOff(s, n) == s

\* The first n elements of a sequence: LIMIT n
Limit(s, n) == SubSeq(s, 1, IF Len(s) < n THEN Len(s) ELSE n)

(***************************************************************************)
(* routes/jobs.ts: GET /v1/jobs/search                                     *)
(***************************************************************************)
\* TTLs of the cache entries, in seconds
TtlFiltered == 180
TtlUnfiltered == 300
TtlSuggestions == 3600

\* LIMIT of the suggestion queries
SuggestionLimit == 10

\* The properties of a pin that jobToPin leaves undefined for a NULL column.
PinOptional == {"payMin", "payMax", "street", "city", "state", "employmentType"}

\* jobToPin(job)
jobToPin(job) ==
    [id |-> job.id, title |-> job.title, company |-> job.company, url |-> job.url,
     lat |-> job.latitude, lon |-> job.longitude,
     payMin |-> job.payMin, payMax |-> job.payMax,
     postedAt |-> job.postedAt,
     street |-> job.street, city |-> job.city, state |-> job.state,
     employmentType |-> job.employmentType, source |-> job.source]

\* The JSON tree of a pin: undefined properties are left out.
PinTree(pin) ==
    [k \in {n \in DOMAIN pin : n \notin PinOptional \/ pin[n] # Null} |->
        IF k \in PinOptional THEN pin[k][1] ELSE pin[k]]

\* The JSON tree of { jobs: pins, count }.
ResultTree(result) ==
    [jobs |-> [i \in DOMAIN result.jobs |-> PinTree(result.jobs[i])],
     count |-> result.count]

SearchCacheKeyWithoutTypes(params) ==
    getCacheKey("jobs:search",
        [bbox |-> params.bbox,
         q |-> IF Truthy(params.q) THEN params.q[1] ELSE <<>>,
         company |-> IF Truthy(params.company) THEN params.company[1] ELSE <<>>,
         minPay |-> IF params.minPay # Null THEN params.minPay[1] ELSE 0,
         maxAgeDays |-> IF params.maxAgeDays # Null THEN params.maxAgeDays[1] ELSE 0,
         limit |-> params.limit])

\* The cache key of a search: the parameters with their defaults.
SearchCacheKey(params) ==
    getCacheKey("jobs:search",
        [bbox |-> params.bbox,
         q |-> IF Truthy(params.q) THEN params.q[1] ELSE <<>>,
         company |-> IF Truthy(params.company) THEN params.company[1] ELSE <<>>,
         minPay |-> IF params.minPay # Null THEN params.minPay[1] ELSE 0,
         maxAgeDays |-> IF params.maxAgeDays # Null THEN params.maxAgeDays[1] ELSE 0,
         types |-> IF Truthy(params.types) THEN params.types[1]
                   ELSE IF params.type # Null THEN <<params.type[1]>> ELSE <<>>,
         limit |-> params.limit])

\* ST_Intersects("locationPoint", ST_MakeEnvelope(minLon, minLat, maxLon, maxLat))
InEnvelope(point, bbox) ==
    /\ bbox[1] <= point[1] /\ point[1] <= bbox[3]
    /\ bbox[2] <= point[2] /\ point[2] <= bbox[4]

SearchWhereEitherFilter(row, params, today) ==
    /\ InEnvelope(row.locationPoint, params.bbox)
    /\ \/ params.minPay # Null
          /\ \/ row.payMax # Null /\ row.payMax[1] >= params.minPay[1]
             \/ row.payMin # Null /\ row.payMin[1] >= params.minPay[1]
       \/ Truthy(params.types)
          /\ row.employmentType # Null
          /\ \E i \in DOMAIN params.types[1] : params.types[1][i] = row.employmentType[1]
       \/ params.minPay = Null /\ ~Truthy(params.types)
          /\ (params.type # Null => row.employmentType = params.type)
    /\ row.status = "APPROVED"
    /\ row.street # Null /\ row.street[1] # <<>>

\* The WHERE clause of the search query for one row; today is new Date().
SearchWhere(row, params, today) ==
    /\ InEnvelope(row.locationPoint, params.bbox)
    /\ Truthy(params.q) =>
          \/ Like(ToLower(row.title), ContainsPattern(params.q[1]))
          \/ Like(ToLower(row.description), ContainsPattern(params.q[1]))
    /\ Truthy(params.company) =>
          Like(ToLower(row.company), ContainsPattern(params.company[1]))
    /\ params.minPay # Null =>
          \/ row.payMax # Null /\ row.payMax[1] >= params.minPay[1]
          \/ row.payMin # Null /\ row.payMin[1] >= params.minPay[1]
    /\ params.maxAgeDays # Null => row.postedAt >= today - params.maxAgeDays[1]
    /\ IF Truthy(params.types)
       THEN /\ row.employmentType # Null
            /\ \E i \in DOMAIN params.types[1] : params.types[1][i] = row.employmentType[1]
       ELSE params.type # Null => row.employmentType = params.type
    /\ row.status = "APPROVED"
    /\ row.street # Null /\ row.street[1] # <<>>

\* What the search query may return: the matching rows by "postedAt" DESC, in
\* any order among equal dates, cut to the limit.
SearchRows(table, params, today) ==
    LET matching == { table[k] : k \in {i \in DOMAIN table :
                                           SearchWhere(table[i], params, today)} }
        n == Cardinality(matching)
        orders == { s \in [1..n -> matching] :
                      \A i, j \in 1..n :
                          i < j => s[i] # s[j] /\ s[i].postedAt >= s[j].postedAt }
    IN  { Limit(s, params.limit) : s \in orders }

\* params.q || params.company || params.minPay || params.maxAgeDays ? 180 : 300
SearchTtl(params) ==
    IF Truthy(params.q) \/ Truthy(params.company) \/ params.minPay # Null
          \/ params.maxAgeDays # Null
    THEN TtlFiltered ELSE TtlUnfiltered

InternalError == JSONstringify([error |-> "Internal server error"])

\* The search handler for valid parameters: rows is what the query returns if
\* it is executed.
searchHandler(store, client, params, rows, readOk, writeOk) ==
    LET cacheKey == SearchCacheKey(params)
        cached == getCache(store, client, cacheKey, readOk)
    IN  IF cached.threw
        THEN [store |-> store, code |-> 500, xCache |-> "none", body |-> InternalError,
              queried |-> FALSE, stored |-> FALSE]
        ELSE IF cached.value # Null
        THEN [store |-> store, code |-> 200, xCache |-> "HIT",
              body |-> JSONstringify(cached.value[1]),
              queried |-> FALSE, stored |-> FALSE]
        ELSE LET result == [jobs |-> [i \in DOMAIN rows |-> jobToPin(rows[i])],
                            count |-> Len(rows)]
                 set == setCache(store, client, cacheKey, ResultTree(result),
                                 SearchTtl(params), writeOk)
             IN  [store |-> set.store, code |-> 200, xCache |-> "MISS",
                  body |-> JSONstringify(ResultTree(result)),
                  queried |-> TRUE, stored |-> set.ok]

(***************************************************************************)
(* routes/jobs.ts: GET /v1/jobs/suggestions                                *)
(***************************************************************************)
\* SELECT DISTINCT column FROM jobs WHERE LOWER(column) LIKE $1
\*   AND status = 'APPROVED' ORDER BY column LIMIT 10
SuggestionQuery(table, q, type) ==
    LET column(row) == IF type = Some("company") THEN row.company ELSE row.title
        found == { column(table[k]) : k \in {i \in DOMAIN table :
                     /\ Like(ToLower(column(table[i])), ContainsPattern(q))
                     /\ table[i].status = "APPROVED"} }
    IN  Limit(SortedTexts(found), SuggestionLimit)

SuggestionCacheKey(q, type) ==
    getCacheKey("jobs:suggestions",
        [q |-> q, type |-> IF type # Null THEN type[1] ELSE "title"])

\* The suggestions handler: q is the query text (Null when absent).
suggestionsHandler(store, client, q, type, table, readOk, writeOk) ==
    IF ~Truthy(q) \/ Len(q[1]) < 2
    THEN [store |-> store, code |-> 200, xCache |-> "none",
          body |-> JSONstringify([suggestions |-> <<>>]),
          queried |-> FALSE, stored |-> FALSE]
    ELSE LET cacheKey == SuggestionCacheKey(q[1], type)
             cached == getCache(store, client, cacheKey, readOk)
         IN  IF cached.threw
             THEN [store |-> store, code |-> 500, xCache |-> "none",
                   body |-> InternalError, queried |-> FALSE, stored |-> FALSE]
             ELSE IF cached.value # Null
             THEN [store |-> store, code |-> 200, xCache |-> "HIT",
                   body |-> JSONstringify(cached.value[1]),
                   queried |-> FALSE, stored |-> FALSE]
             ELSE LET result == [suggestions |-> SuggestionQuery(table, q[1], type)]
                      set == setCache(store, client, cacheKey, result,
                                      TtlSuggestions, writeOk)
                  IN  [store |-> set.store, code |-> 200, xCache |-> "MISS",
                       body |-> JSONstringify(result),
                       queried |-> TRUE, stored |-> set.ok]

(***************************************************************************)
(* lib/geocode.ts: reverseGeocode                                          *)
(***************************************************************************)
TextOakSt == <<"O", "a", "k", " ", "S", "t">>

Feature(type, text, address, name) ==
    [kind |-> "features", type |-> type, text |-> text, address |-> address,
     name |-> name, city |-> Some(TextPhoenix), state |-> Some(TextAZ),
     postalCode |-> Some(Text85004)]

\* What the geocoding service may answer to a reverse query: a network error,
\* a non-ok status, no feature, or a best feature of some type.
ReverseResponses ==
    { [kind |-> k] : k \in {"throws", "notok", "empty"} }
    \cup { Feature("address", TextOakSt, Some(<<"2">>), Null),
           Feature("place", TextPhoenix, Null, Null),
           Feature("street", EmptyText, Null, Null) }

\* reverseGeocode(lat, lon) without allowImprecise: the address, null, or a
\* throw (only for a missing token).
reverseGeocode(token, response) ==
    IF ~token THEN [threw |-> TRUE, address |-> Null]
    ELSE IF response.kind # "features" THEN [threw |-> FALSE, address |-> Null]
    ELSE IF response.type \in {"place", "region"}
    THEN [threw |-> FALSE, address |-> Null]
    ELSE LET street ==
                 IF response.type = "poi" /\ Truthy(response.name)
                 THEN IF Truthy(response.address)
                      THEN Trim(response.address[1] \o <<" ">> \o response.name[1])
                      ELSE response.name[1]
                 ELSE IF Truthy(response.address)
                      THEN Trim(response.address[1] \o <<" ">> \o response.text)
                      ELSE response.text
         IN  IF street = <<>>
             THEN [threw |-> FALSE, address |-> Null]
             ELSE [threw |-> FALSE,
                   address |-> Some([street |-> Some(street), city |-> response.city,
                                     state |-> response.state,
                                     postalCode |-> response.postalCode,
                                     country |-> TextUS])]

(***************************************************************************)
(* scripts/update-street-addresses.ts                                      *)
(***************************************************************************)
\* WHERE street IS NULL OR street = '' AND latitude IS NOT NULL
\*   AND longitude IS NOT NULL AND status = 'APPROVED'
StreetPassSelected(table) ==
    { k \in DOMAIN table :
        \/ table[k].street = Null
        \/ table[k].street = Some(EmptyText) /\ table[k].status = "APPROVED" }

\* COALESCE($n, column)
Coalesce(v, column) == IF Truthy(v) THEN v ELSE column

\* One iteration of the loop: the street from the reverse lookup, REJECTED
\* when it has none, nothing when the lookup throws.
StreetPassRow(row, reversed) ==
    IF reversed.threw THEN row
    ELSE IF reversed.address # Null /\ Truthy(reversed.address[1].street)
    THEN [row EXCEPT !.street = reversed.address[1].street,
                     !.city = Coalesce(reversed.address[1].city, @),
                     !.state = Coalesce(reversed.address[1].state, @),
                     !.postalCode = Coalesce(reversed.address[1].postalCode, @)]
    ELSE [row EXCEPT !.status = "REJECTED"]

\* One run of the script over the rows it selects.
UpdateStreetAddressesPass ==
    \E answers \in [StreetPassSelected(jobs) -> ReverseResponses] :
        /\ jobs' = [k \in DOMAIN jobs |->
                       IF k \in StreetPassSelected(jobs)
                       THEN StreetPassRow(jobs[k], reverseGeocode(mapboxToken, answers[k]))
                       ELSE jobs[k]]
        /\ UNCHANGED <<nextId, now, lastOp>>

(***************************************************************************)
(* Requests, cache expiry, and the search specification                    *)
(***************************************************************************)
\* Whether a cache read may succeed: without a client nothing is read.
CacheAnswers == IF redis THEN BOOLEAN ELSE {FALSE}

EntryOf(store, key) == IF key \in DOMAIN store THEN Some(store[key]) ELSE Null

\* The response of a handler, with what the request found in the cache
\* (entry), whether its cache read succeeded and whether it wrote an entry.
Response(route, params, key, res, readOk) ==
    [route |-> route, params |-> params, code |-> res.code, xCache |-> res.xCache,
     body |-> res.body, queried |-> res.queried, stored |-> res.stored,
     readOk |-> readOk, entry |-> EntryOf(cacheStore, key)]

\* The keyspace after a handler has run; a new entry remembers the response
\* that wrote it.
StoreAfter(key, params, res) ==
    IF res.stored
    THEN Put(res.store, key,
             [value |-> res.store[key].value, ttl |-> res.store[key].ttl,
              writer |-> [params |-> params, xCache |-> res.xCache,
                          body |-> res.body]])
    ELSE res.store

\* GET /v1/jobs/search with valid parameters
Search(params) ==
    \E readOk \in CacheAnswers, writeOk \in CacheAnswers,
       rows \in SearchRows(jobs, params, now) :
        LET key == SearchCacheKey(params)
            res == searchHandler(cacheStore, redis, params, rows, readOk, writeOk)
        IN  /\ cacheStore' = StoreAfter(key, params, res)
            /\ lastReq' = Response("search", params, key, res, readOk)
            /\ UNCHANGED redis

\* GET /v1/jobs/suggestions
Suggest(q, type) ==
    \E readOk \in CacheAnswers, writeOk \in CacheAnswers :
        LET key == SuggestionCacheKey(IF q = Null THEN <<>> ELSE q[1], type)
            res == suggestionsHandler(cacheStore, redis, q, type, jobs, readOk, writeOk)
            params == [q |-> q, type |-> type]
        IN  /\ cacheStore' = StoreAfter(key, params, res)
            /\ lastReq' = Response("suggestions", params, key, res, readOk)
            /\ UNCHANGED redis

\* The TTL of an entry runs out.
CacheExpire ==
    \E key \in DOMAIN cacheStore :
        /\ cacheStore' = [k \in DOMAIN cacheStore \ {key} |-> cacheStore[k]]
        /\ lastReq' = NoRequest
        /\ UNCHANGED redis

DefaultLimit == 200

SearchAll ==
    [bbox |-> <<-113, 32, -111, 34>>, q |-> Null, company |-> Null, minPay |-> Null,
     maxAgeDays |-> Null, type |-> Null, types |-> Null, limit |-> DefaultLimit]

SearchNurse == [SearchAll EXCEPT !.q = Some(<<"r", "N">>)]

SearchParams == {SearchAll, SearchNurse}

SuggestInputs ==
    { <<Some(<<"r", "n">>), Null>>,
      <<Some(<<"r">>), Null>>,
      <<Some(<<"A", "c">>), Some("company")>> }

\* One ingested posting, with a street, without one, and with an empty one.
SearchInputs ==
    { JobInput("ADZUNA", "a1", TitleNurse, st, CoordPhoenix, Undefined) :
        st \in {Some(StreetMain), Null, Some(EmptyText)} }

\* A step that answers no request and leaves the cache alone.
NoRequestStep ==
    /\ lastReq' = NoRequest
    /\ UNCHANGED <<procs, geoVars, redis, cacheStore>>

Init ==
    /\ StoreInit
    /\ procs = NoProcs
    /\ GeoIdle
    /\ redis \in BOOLEAN
    /\ cacheStore = <<>>
    /\ lastReq = NoRequest

Next ==
    \/ (\E data \in SearchInputs : Upsert(data)) /\ NoRequestStep
    \/ AdminApprove /\ NoRequestStep
    \/ AdminReject /\ NoRequestStep
    \/ UpdateStreetAddressesPass /\ NoRequestStep
    \/ (\E params \in SearchParams : Search(params))
            /\ UNCHANGED <<storeVars, procs, geoVars>>
    \/ (\E input \in SuggestInputs : Suggest(input[1], input[2]))
            /\ UNCHANGED <<storeVars, procs, geoVars>>
    \/ CacheExpire /\ UNCHANGED <<storeVars, procs, geoVars>>

Spec == Init /\ [][Next]_vars

(***************************************************************************)
(* Properties of search, suggestions and the cache                         *)
(***************************************************************************)
\* The row of a pin, by id.
StoredRows(id) == { jobs[k] : k \in {i \in DOMAIN jobs : jobs[i].id = id} }

\* C1: every posting in a search response, computed from storage or served
\* from the cache, has in storage, when the response is sent, status APPROVED
\* and a non-empty street.
C1_SearchOnlyApprovedWithStreet ==
    (lastReq.route = "search" /\ lastReq.code = 200)
    => \A i \in DOMAIN JSONparse(lastReq.body).jobs :
          \E row \in StoredRows(JSONparse(lastReq.body).jobs[i].id) :
              /\ row.status = "APPROVED"
              /\ row.street # Null /\ row.street[1] # <<>>

\* C9: a search that finds, with the cache configured and answering, the
\* unexpired entry that an earlier search with identical parameters wrote
\* returns the body of that earlier response, reports HIT and runs no storage
\* query; the earlier response reported MISS.
C9_SecondSearchHits ==
    (lastReq.route = "search" /\ redis /\ lastReq.readOk
        /\ lastReq.entry # Null /\ lastReq.entry[1].writer.params = lastReq.params)
    => /\ lastReq.code = 200
       /\ lastReq.xCache = "HIT"
       /\ lastReq.body = lastReq.entry[1].writer.body
       /\ ~lastReq.queried
       /\ lastReq.entry[1].writer.xCache = "MISS"

\* The filtered search has been answered from the cache with one posting.
C9_Witness ==
    /\ lastReq.route = "search" /\ lastReq.params = SearchNurse
    /\ lastReq.xCache = "HIT" /\ lastReq.entry # Null
    /\ JSONparse(lastReq.body).count = 1

\* The bodies that the search query, run directly against storage, yields.
DirectSearchBodies(params) ==
    { JSONstringify(ResultTree([jobs |-> [i \in DOMAIN rows |-> jobToPin(rows[i])],
                                count |-> Len(rows)])) :
        rows \in SearchRows(jobs, params, now) }

\* The body of the suggestions route without a cache.
DirectSuggestionBody(params) ==
    JSONstringify([suggestions |->
        IF ~Truthy(params.q) \/ Len(params.q[1]) < 2 THEN <<>>
        ELSE SuggestionQuery(jobs, params.q[1], params.type)])

\* C10: without a cache client, or with the cache read and the cache write of
\* the request both failing, a search or suggestion request is answered 200
\* with the body its query yields when run directly against storage, and
\* reports MISS (a suggestion query under two characters runs no query,
\* returns no suggestion and carries no X-Cache header, cache or not).
C10_CacheTransparent ==
    (lastReq.route \in {"search", "suggestions"} /\ ~lastReq.readOk /\ ~lastReq.stored)
    => /\ lastReq.code = 200
       /\ lastReq.route = "search" =>
             /\ lastReq.body \in DirectSearchBodies(lastReq.params)
             /\ lastReq.xCache = "MISS"
       /\ lastReq.route = "suggestions" =>
             /\ lastReq.body = DirectSuggestionBody(lastReq.params)
             /\ lastReq.xCache =
                  IF ~Truthy(lastReq.params.q) \/ Len(lastReq.params.q[1]) < 2
                  THEN "none" ELSE "MISS"

\* A search whose cache read failed while the cache held an entry for it, and
\* whose cache write failed too, has been answered from storage with a
\* posting that the entry does not have.
C10_Witness ==
    /\ lastReq.route = "search" /\ redis
    /\ ~lastReq.readOk /\ ~lastReq.stored
    /\ lastReq.entry # Null
    /\ JSONparse(lastReq.entry[1].value).count = 0
    /\ JSONparse(lastReq.body).count = 1

(***************************************************************************)
(* Text: split, includes, and the street-address pattern of the ingesters  *)
(***************************************************************************)
\* text.split(sep)
RECURSIVE Split(_, _)
Split(text, sep) ==
    IF \A i \in DOMAIN text : text[i] # sep THEN <<text>>
    ELSE LET at == CHOOSE i \in DOMAIN text :
                        text[i] = sep /\ \A j \in 1..(i - 1) : text[j] # sep
         IN  <<SubSeq(text, 1, at - 1)>> \o Split(SubSeq(text, at + 1, Len(text)), sep)

\* text.split(",").map((p) => p.trim())
SplitTrimmed(text) ==
    LET parts == Split(text, ",") IN [i \in DOMAIN parts |-> Trim(parts[i])]

\* text.includes(part)
Includes(text, part) ==
    \E i \in 1..(Len(text) - Len(part) + 1) : SubSeq(text, i, i + Len(part) - 1) = part

Digits == {"0", "1", "2", "3", "4", "5", "6", "7", "8", "9"}

Letters == {UpperLetters[i] : i \in DOMAIN UpperLetters}
           \cup {LowerLetters[i] : i \in DOMAIN LowerLetters}

\* The street suffixes of the address pattern, in the order of the alternation.
StreetSuffixes ==
    <<<<"s", "t", "r", "e", "e", "t">>,
      <<"s", "t">>,
      <<"a", "v", "e", "n", "u", "e">>,
      <<"a", "v", "e">>,
      <<"r", "o", "a", "d">>,
      <<"r", "d">>,
      <<"b", "o", "u", "l", "e", "v", "a", "r", "d">>,
      <<"b", "l", "v", "d">>,
      <<"d", "r", "i", "v", "e">>,
      <<"d", "r">>,
      <<"l", "a", "n", "e">>,
      <<"l", "n">>,
      <<"w", "a", "y">>,
      <<"c", "o", "u", "r", "t">>,
      <<"c", "t">>,
      <<"c", "i", "r", "c", "l", "e">>,
      <<"c", "i", "r">>,
      <<"p", "l", "a", "c", "e">>,
      <<"p", "l">>,
      <<"p", "a", "r", "k", "w", "a", "y">>,
      <<"p", "k", "w", "y">>>>

\* text[i..j] matches /\d+\s+[A-Za-z0-9\s]+(?:Street|St|...)/i with the suffix
\* starting at m and being alternative a.
StreetMatch(text, i, m, a) ==
    LET j == m + Len(StreetSuffixes[a]) - 1
    IN  /\ j <= Len(text)
        /\ ToLower(SubSeq(text, m, j)) = StreetSuffixes[a]
        /\ \E d \in i..(m - 3), w \in (i + 1)..(m - 2) :
              /\ d < w
              /\ \A k \in i..d : text[k] \in Digits
              /\ \A k \in (d + 1)..w : text[k] = " "
              /\ \A k \in (w + 1)..(m - 1) : text[k] \in Letters \cup Digits \cup {" "}

\* The first match of the street pattern in a description: the leftmost
\* start, the longest run before the suffix, the first alternative; trimmed,
\* with runs of spaces collapsed (the matches here have none). The two
\* longer patterns, tried first, need a state code after the street.
ExtractStreetAddress(description) ==
    LET n == Len(description)
        starts == { i \in 1..n : \E m \in 1..n, a \in DOMAIN StreetSuffixes :
                                    StreetMatch(description, i, m, a) }
    IN  IF starts = {} THEN Null
        ELSE LET i == CHOOSE x \in starts : \A y \in starts : x <= y
                 ms == { m \in 1..n : \E a \in DOMAIN StreetSuffixes :
                                         StreetMatch(description, i, m, a) }
                 m == CHOOSE x \in ms : \A y \in ms : y <= x
                 as == { a \in DOMAIN StreetSuffixes : StreetMatch(description, i, m, a) }
                 a == CHOOSE x \in as : \A y \in as : x <= y
             IN  Some(Trim(SubSeq(description, i, m + Len(StreetSuffixes[a]) - 1)))

(***************************************************************************)
(* lib/geocode.ts: geocodeAddressSafe                                      *)
(***************************************************************************)
\* x || undefined, for a text
TextOrUndefined(parts, i) ==
    IF i <= Len(parts) /\ parts[i] # <<>> THEN Some(parts[i]) ELSE Null

\* The address object that geocodeAddressSafe makes of a string.
AddressOfString(text) ==
    LET parts == SplitTrimmed(text)
    IN  Address(Null, TextOrUndefined(parts, 1), TextOrUndefined(parts, 2), Null,
                Some(TextUS))

\* geocodeAddressSafe(address) for an address object: the coordinates, or
\* null when geocodeAddress throws.
geocodeAddressSafe(cache, address, token, readOk, main, writeOk) ==
    LET res == geocodeAddress(cache, address, token, readOk, main, writeOk)
    IN  [cache |-> res.cache,
         result |-> IF res.threw THEN Null ELSE Some(res.center)]

(***************************************************************************)
(* ingest/adzuna.ts                                                        *)
(***************************************************************************)
TEXT_FULL == <<"f", "u", "l", "l">>
TEXT_PERMANENT == <<"p", "e", "r", "m", "a", "n", "e", "n", "t">>
TEXT_PART == <<"p", "a", "r", "t">>
TEXT_CONTRACT == <<"c", "o", "n", "t", "r", "a", "c", "t">>
TEXT_TEMP == <<"t", "e", "m", "p">>
TEXT_INTERN == <<"i", "n", "t", "e", "r", "n">>
TEXT_REMOTE == <<"r", "e", "m", "o", "t", "e">>

\* normalizeEmploymentType(contractType) of the Adzuna ingester
normalizeEmploymentTypeAdzuna(contractType) ==
    IF ~Truthy(contractType) THEN Null
    ELSE LET normalized == ToLower(contractType[1])
         IN  IF Includes(normalized, TEXT_FULL) \/ Includes(normalized, TEXT_PERMANENT)
             THEN Some("FULL_TIME")
             ELSE IF Includes(normalized, TEXT_PART) THEN Some("PART_TIME")
             ELSE IF Includes(normalized, TEXT_CONTRACT) THEN Some("CONTRACT")
             ELSE IF Includes(normalized, TEXT_TEMP) THEN Some("TEMP")
             ELSE IF Includes(normalized, TEXT_INTERN) THEN Some("INTERN")
             ELSE Null

\* parseLocation(location) of the Adzuna ingester: the city is the first part
\* of display_name, the state the two capitals that start the second part.
parseLocationAdzuna(location) ==
    IF ~Truthy(location.display_name) THEN [city |-> Null, state |-> Null]
    ELSE LET parts == SplitTrimmed(location.display_name[1])
             second == IF Len(parts) >= 2 THEN parts[2] ELSE <<>>
         IN  [city |-> TextOrUndefined(parts, 1),
              state |-> IF Len(second) >= 2
                           /\ \A i \in 1..2 :
                                \E u \in DOMAIN UpperLetters : UpperLetters[u] = second[i]
                        THEN Some(SubSeq(second, 1, 2)) ELSE Null]

\* a || b
Either(a, b) == IF Truthy(a) THEN a ELSE b

\* text || default
TextOr(text, default) == IF text # <<>> THEN text ELSE default

TEXT_UNTITLED == <<"U", "n", "t", "i", "t", "l", "e", "d", " ", "P", "o", "s", "i", "t", "i", "o", "n">>
TEXT_UNKNOWN_COMPANY == <<"U", "n", "k", "n", "o", "w", "n", " ", "C", "o", "m", "p", "a", "n", "y">>

\* normalizeSalary(min, max): each bound rounded, undefined when absent or 0
\* (the amounts here are whole numbers).
normalizeSalary(amount) == IF amount # Null /\ amount[1] # 0 THEN amount ELSE Null

NoJob == [cache |-> <<>>, threw |-> FALSE, job |-> Null]

\* The descriptions of the postings of the model, and the street address the
\* pattern finds in each, computed once.
Descriptions == {DescPlain, DescWithAddress, EmptyText}

ExtractedStreet == [d \in Descriptions |-> ExtractStreetAddress(d)]

\* normalizeAdzunaJob, first part: the coordinates of the posting, or those of
\* its display name from geocodeAddressSafe; null when there are none.
\* env gives the answers of the geocoding service (located: the display
\* name; precise: the extracted address; reversed: the reverse lookup) and
\* whether the geocode cache answers.
AdzunaLocated(adzunaJob, cache, token, env) ==
    LET location == adzunaJob.location
    IN  IF location.latitude # 0 /\ location.longitude # 0
        THEN [cache |-> cache, result |-> Some(<<location.longitude, location.latitude>>)]
        ELSE IF Truthy(location.display_name)
        THEN geocodeAddressSafe(cache, AddressOfString(location.display_name[1]), token,
                                env.cacheOk, env.located, env.cacheOk)
        ELSE [cache |-> cache, result |-> Null]

\* Second part: the address found in the description, geocoded with the city
\* and state of the display name.
AdzunaPrecise(adzunaJob, cache, token, env) ==
    LET locationParts == parseLocationAdzuna(adzunaJob.location)
        extracted == ExtractedStreet[adzunaJob.description]
    IN  IF extracted = Null
        THEN [cache |-> cache, result |-> Null]
        ELSE geocodeAddressSafe(cache,
                AddressOfString(
                    IF Truthy(locationParts.city) /\ Truthy(locationParts.state)
                    THEN extracted[1] \o CommaSpace \o locationParts.city[1]
                            \o CommaSpace \o locationParts.state[1]
                    ELSE extracted[1]),
                token, env.cacheOk, env.precise, env.cacheOk)

\* Last part, for a posting that has coordinates: the street from the
\* description or from the reverse lookup, and the JobInput, null without a
\* street, or the throw of the reverse lookup.
AdzunaJobInput(adzunaJob, located, precise, token, today, env) ==
    LET locationParts == parseLocationAdzuna(adzunaJob.location)
        extracted == ExtractedStreet[adzunaJob.description]
        center == IF precise.result # Null THEN precise.result[1] ELSE located.result[1]
        reversed == IF extracted = Null
                    THEN reverseGeocode(token, env.reversed)
                    ELSE [threw |-> FALSE,
                          address |-> Some([street |-> extracted,
                                            city |-> locationParts.city,
                                            state |-> locationParts.state,
                                            postalCode |-> Null, country |-> TextUS])]
    IN  IF reversed.threw
        THEN [cache |-> precise.cache, threw |-> TRUE, job |-> Null]
        ELSE IF reversed.address = Null \/ ~Truthy(reversed.address[1].street)
        THEN [NoJob EXCEPT !.cache = precise.cache]
        ELSE LET fullAddress == reversed.address[1]
             IN  [cache |-> precise.cache, threw |-> FALSE,
                  job |-> Some(
                    [source |-> "ADZUNA",
                     sourceId |-> adzunaJob.id,
                     title |-> TextOr(adzunaJob.title, TEXT_UNTITLED),
                     company |-> TextOr(adzunaJob.company, TEXT_UNKNOWN_COMPANY),
                     description |-> adzunaJob.description,
                     url |-> adzunaJob.redirect_url,
                     street |-> fullAddress.street,
                     city |-> Either(fullAddress.city, locationParts.city),
                     state |-> Either(fullAddress.state, locationParts.state),
                     postalCode |-> Either(fullAddress.postalCode, Null),
                     country |-> Some(fullAddress.country),
                     latitude |-> center[2], longitude |-> center[1],
                     employmentType |-> normalizeEmploymentTypeAdzuna(adzunaJob.contract_type),
                     payMin |-> normalizeSalary(adzunaJob.salary_min),
                     payMax |-> normalizeSalary(adzunaJob.salary_max),
                     payCurrency |-> Some("USD"),
                     postedAt |-> IF adzunaJob.created # Null
                                  THEN adzunaJob.created[1] ELSE today,
                     status |-> Undefined])]

(***************************************************************************)
(* ingest/linkedin.ts                                                      *)
(***************************************************************************)
\* parseLocation(locationStr) of the LinkedIn ingester
parseLocationLinkedIn(locationStr) ==
    LET parts == SplitTrimmed(locationStr)
    IN  IF Includes(ToLower(locationStr), TEXT_REMOTE)
        THEN [city |-> Null, state |-> Null, country |-> Some(TextUS)]
        ELSE [city |-> TextOrUndefined(parts, 1),
              state |-> IF Len(parts) >= 2 /\ Len(parts[2]) = 2
                        THEN Some(parts[2]) ELSE Null,
              country |-> IF TextOrUndefined(parts, 3) # Null
                          THEN TextOrUndefined(parts, 3) ELSE Some(TextUS)]

\* normalizeEmploymentType(type) of the LinkedIn ingester
normalizeEmploymentTypeLinkedIn(type) ==
    IF ~Truthy(type) THEN Null
    ELSE LET normalized == ToLower(type[1])
         IN  IF Includes(normalized, TEXT_FULL) THEN Some("FULL_TIME")
             ELSE IF Includes(normalized, TEXT_PART) THEN Some("PART_TIME")
             ELSE IF Includes(normalized, TEXT_CONTRACT) THEN Some("CONTRACT")
             ELSE IF Includes(normalized, TEXT_TEMP) THEN Some("TEMP")
             ELSE IF Includes(normalized, TEXT_INTERN) THEN Some("INTERN")
             ELSE Null

\* parts.join(sep) for strings
RECURSIVE JoinStrings(_, _)
JoinStrings(parts, sep) ==
    IF parts = <<>> THEN ""
    ELSE IF Len(parts) = 1 THEN parts[1]
    ELSE parts[1] \o sep \o JoinStrings(Tail(parts), sep)

\* normalizeLinkedInJob(linkedInJob), first part: the location geocoded.
LinkedInLocated(linkedInJob, cache, token, env) ==
    LET locationParts == parseLocationLinkedIn(linkedInJob.location)
    IN  geocodeAddressSafe(cache,
            Address(Null, locationParts.city, locationParts.state, Null,
                    locationParts.country),
            token, env.cacheOk, env.located, env.cacheOk)

\* Second part: the JobInput, or null when the location was not geocoded.
\* url is the list of the "/"-separated parts of the URL.
LinkedInJobInput(linkedInJob, geocodeResult, today) ==
    LET locationParts == parseLocationLinkedIn(linkedInJob.location)
        urlParts == linkedInJob.url
    IN  IF geocodeResult.result = Null
        THEN [NoJob EXCEPT !.cache = geocodeResult.cache]
        ELSE [cache |-> geocodeResult.cache, threw |-> FALSE,
              job |-> Some(
                [source |-> "LINKEDIN",
                 sourceId |-> "linkedin-" \o (IF urlParts[Len(urlParts)] # ""
                                              THEN urlParts[Len(urlParts)]
                                              ELSE JoinStrings(urlParts, "/")),
                 title |-> linkedInJob.title,
                 company |-> linkedInJob.company,
                 description |-> linkedInJob.description,
                 url |-> JoinStrings(urlParts, "/"),
                 street |-> Null,
                 city |-> locationParts.city,
                 state |-> locationParts.state,
                 postalCode |-> Null,
                 country |-> locationParts.country,
                 latitude |-> geocodeResult.result[1][2],
                 longitude |-> geocodeResult.result[1][1],
                 employmentType |-> normalizeEmploymentTypeLinkedIn(linkedInJob.employmentType),
                 payMin |-> linkedInJob.salary_min,
                 payMax |-> linkedInJob.salary_max,
                 payCurrency |-> Some("USD"),
                 postedAt |-> IF linkedInJob.postedDate # Null
                              THEN linkedInJob.postedDate[1] ELSE today,
                 status |-> Undefined])]

(***************************************************************************)
(* The ingestion loops                                                     *)
(***************************************************************************)
TextPhoenixAZ == TextPhoenix \o CommaSpace \o TextAZ

AdzunaJob(id, description, display_name, coord) ==
    [id |-> id, title |-> TitleNurse, company |-> CompanyAcme,
     description |-> description, redirect_url |-> "https://adzuna/1",
     location |-> [display_name |-> display_name, latitude |-> coord[2],
                   longitude |-> coord[1]],
     contract_type |-> Some(<<"F", "u", "l", "l">>),
     salary_min |-> Some(10), salary_max |-> Null, created |-> Some(0)]

\* <<0, 0>> stands for a posting without coordinates.
AdzunaJobs ==
    { AdzunaJob("a1", DescWithAddress, Some(TextPhoenixAZ), CoordPhoenix),
      AdzunaJob("a1", DescPlain, Some(TextPhoenixAZ), <<0, 0>>),
      AdzunaJob("a1", DescPlain, Null, <<0, 0>>) }

LinkedInJob(location) ==
    [title |-> TitleDev, company |-> CompanyAcme, location |-> location,
     description |-> DescPlain,
     url |-> <<"https:", "", "www.linkedin.com", "jobs", "view", "l1">>,
     postedDate |-> Null, salary_min |-> Null, salary_max |-> Null,
     employmentType |-> Null]

TextRemote == <<"R", "e", "m", "o", "t", "e">>

LinkedInJobs == { LinkedInJob(TextPhoenixAZ), LinkedInJob(TextRemote) }

\* What the outside answers during one iteration of an ingestion loop.
IngestEnvs ==
    [cacheOk : BOOLEAN,
     located : {m \in MainResponses : m.kind = "notok" \/ m.center = CoordPhoenix},
     precise : {m \in MainResponses : m.kind = "empty" \/ m.center = CoordTempe},
     reversed : {r \in ReverseResponses : r.kind = "empty" \/ r.kind = "features"}]

\* One iteration of a loop: normalize, then upsert unless the posting was
\* skipped or the normalizer threw (either is counted as failed).
IngestStep(normalized) ==
    /\ geocodeCache' = normalized.cache
    /\ IF normalized.threw \/ normalized.job = Null
       THEN UNCHANGED storeVars
       ELSE Upsert(normalized.job[1])
    /\ UNCHANGED <<mapboxToken, geoLast>>

\* normalizeAdzunaJob(adzunaJob), then the upsert: the parts of the normalizer
\* run in sequence, each on the geocode cache the one before left.
IngestAdzunaJob ==
    \E adzunaJob \in AdzunaJobs, env \in IngestEnvs :
        \E located \in {AdzunaLocated(adzunaJob, geocodeCache, mapboxToken, env)} :
            IF located.result = Null
            THEN IngestStep([NoJob EXCEPT !.cache = located.cache])
            ELSE \E precise \in {AdzunaPrecise(adzunaJob, located.cache, mapboxToken, env)} :
                    \E normalized \in {AdzunaJobInput(adzunaJob, located, precise,
                                                      mapboxToken, now, env)} :
                        IngestStep(normalized)

\* normalizeLinkedInJob(linkedInJob), then the upsert.
IngestLinkedInJob ==
    \E linkedInJob \in LinkedInJobs, env \in IngestEnvs :
        \E located \in {LinkedInLocated(linkedInJob, geocodeCache, mapboxToken, env)} :
            \E normalized \in {LinkedInJobInput(linkedInJob, located, now)} :
                IngestStep(normalized)

IngestInit ==
    /\ StoreInit
    /\ procs = NoProcs
    /\ geocodeCache = <<>>
    /\ mapboxToken \in BOOLEAN
    /\ geoLast = [address |-> AddressEmpty, key |-> <<>>, out |-> NoGeoCall,
                  prior |-> NoGeoCall]
    /\ CacheIdle

IngestNext ==
    \/ IngestAdzunaJob /\ UNCHANGED <<procs, cacheVars>>
    \/ IngestLinkedInJob /\ UNCHANGED <<procs, cacheVars>>

SpecIngest == IngestInit /\ [][IngestNext]_vars

\* C6: every row that an ingestion loop has persisted has a non-empty street.
C6_PersistedHaveStreet ==
    \A k \in DOMAIN jobs : jobs[k].street # Null /\ jobs[k].street[1] # <<>>

(***************************************************************************)
(* routes/jobs.ts: the search route from the raw query string              *)
(***************************************************************************)
\* A numeric query parameter as z.coerce.number() sees it: a number that is
\* an integer or not (a fraction, or NaN for a text that is no number).
RawInt(n) == Some([int |-> TRUE, value |-> n])

RawNotInt == Some([int |-> FALSE, value |-> 0])

MaxLimit == 500

\* z.coerce.number().int().positive(): whether the value passes
PositiveInt(raw) == raw[1].int /\ raw[1].value > 0

\* searchQuerySchema.parse(request.query) for a query whose bbox matches the
\* pattern: the parameters, or a ZodError. types is kept as the list that
\* split(",") and trim() make of it.
searchQuerySchema(query) ==
    IF \/ query.minPay # Null /\ ~PositiveInt(query.minPay)
       \/ query.maxAgeDays # Null /\ ~PositiveInt(query.maxAgeDays)
       \/ query.limit # Null
            /\ (~PositiveInt(query.limit) \/ query.limit[1].value > MaxLimit)
    THEN [ok |-> FALSE, params |-> query]
    ELSE [ok |-> TRUE,
          params |-> [bbox |-> query.bbox, q |-> query.q, company |-> query.company,
                      minPay |-> IF query.minPay = Null THEN Null
                                 ELSE Some(query.minPay[1].value),
                      maxAgeDays |-> IF query.maxAgeDays = Null THEN Null
                                     ELSE Some(query.maxAgeDays[1].value),
                      type |-> query.type, types |-> query.types,
                      limit |-> IF query.limit = Null THEN DefaultLimit
                                ELSE query.limit[1].value]]

\* reply.code(400).send({ error: "Invalid query parameters", details })
InvalidParameters(query) ==
    [route |-> "search", query |-> query, params |-> query, code |-> 400,
     xCache |-> "none", body |-> JSONstringify([error |-> "Invalid query parameters"]),
     queried |-> FALSE, stored |-> FALSE, readOk |-> FALSE, entry |-> Null]

\* GET /v1/jobs/search?...: validation, then the handler.
SearchRequest(query) ==
    \E parsed \in {searchQuerySchema(query)} :
        IF ~parsed.ok
        THEN /\ lastReq' = InvalidParameters(query)
             /\ UNCHANGED <<redis, cacheStore>>
        ELSE \E readOk \in CacheAnswers, writeOk \in CacheAnswers,
                rows \in SearchRows(jobs, parsed.params, now) :
                \E res \in {searchHandler(cacheStore, redis, parsed.params, rows,
                                          readOk, writeOk)} :
                    /\ cacheStore' = StoreAfter(SearchCacheKey(parsed.params),
                                                parsed.params, res)
                    /\ lastReq' = [query |-> query]
                                  @@ Response("search", parsed.params,
                                              SearchCacheKey(parsed.params), res, readOk)
                    /\ UNCHANGED redis

(***************************************************************************)
(* The search route over a table of postings that differ in pay and type   *)
(***************************************************************************)
\* Postings by pay range, employment type and posting date, all at Phoenix.
PayRow(sourceId, payMin, payMax, employmentType, postedAt) ==
    [JobInput("ADZUNA", sourceId, TitleNurse, Some(StreetMain), CoordPhoenix, Undefined)
        EXCEPT !.payMin = payMin, !.payMax = payMax,
               !.employmentType = employmentType, !.postedAt = postedAt]

PayRows ==
    << PayRow("a1", Some(40), Some(60), Some("FULL_TIME"), 3),
       PayRow("a2", Some(10), Null, Some("PART_TIME"), 2),
       PayRow("a3", Some(60), Null, Null, 1),
       PayRow("a4", Some(60), Some(80), Some("CONTRACT"), 0) >>

\* The jobs table after upsertJob of each input of a list, in order.
RECURSIVE TableOf(_)
TableOf(inputs) ==
    IF inputs = <<>> THEN <<>>
    ELSE upsertJob(TableOf(SubSeq(inputs, 1, Len(inputs) - 1)),
                   inputs[Len(inputs)], Len(inputs), 0).table

\* The tables that hold some of the postings.
PayTables ==
    { TableOf(SelectSeq(PayRows, LAMBDA r : r.sourceId \in ids)) :
        ids \in SUBSET {"a1", "a2", "a3", "a4"} }

Query(minPay, type, types, limit) ==
    [bbox |-> <<-113, 32, -111, 34>>, q |-> Null, company |-> Null, minPay |-> minPay,
     maxAgeDays |-> Null, type |-> type, types |-> types, limit |-> limit]

SearchQueries ==
    { Query(Null, Null, Null, Null),
      Query(RawInt(50), Null, Null, Null),
      Query(Null, Null, Some(<<"FULL_TIME", "PART_TIME">>), Null),
      Query(Null, Some("CONTRACT"), Null, Null),
      Query(RawInt(50), Null, Some(<<"FULL_TIME", "PART_TIME">>), Null),
      Query(Null, Some("CONTRACT"), Some(<<"FULL_TIME", "PART_TIME">>), Null),
      Query(Null, Null, Null, RawInt(2)),
      Query(Null, Null, Null, RawInt(0)),
      Query(Null, Null, Null, RawInt(501)),
      Query(Null, Null, Null, RawNotInt) }

SearchInit ==
    /\ jobs \in PayTables
    /\ nextId = Cardinality(DOMAIN jobs) + 1
    /\ now = 0
    /\ lastOp = Op("none", NoData, NoResult, 0, FALSE)
    /\ procs = NoProcs
    /\ GeoIdle
    /\ redis \in BOOLEAN
    /\ cacheStore = <<>>
    /\ lastReq = NoRequest

SearchNext ==
    \/ (\E query \in SearchQueries : SearchRequest(query))
            /\ UNCHANGED <<storeVars, procs, geoVars>>
    \/ CacheExpire /\ UNCHANGED <<storeVars, procs, geoVars>>

SpecSearch == SearchInit /\ [][SearchNext]_vars

\* The request carries one of the optional filters.
AnyFilter(query) ==
    \/ Truthy(query.q) \/ Truthy(query.company)
    \/ query.minPay # Null \/ query.maxAgeDays # Null
    \/ query.type # Null \/ Truthy(query.types)

\* C11: a search that missed the cache and stored its result stored it with
\* TTL 180 when the request carries any optional filter (keyword, company,
\* minimum pay, maximum age, employment type or types) and with TTL 300 when
\* it carries none.
C11_TtlByFilters ==
    (lastReq.route = "search" /\ lastReq.code = 200 /\ lastReq.stored)
    => cacheStore[SearchCacheKey(lastReq.params)].ttl =
          (IF AnyFilter(lastReq.query) THEN TtlFiltered ELSE TtlUnfiltered)

(***************************************************************************)
(* scripts: the coordinate-collision passes                                *)
(* (fix-duplicate-coordinates.ts, spread-duplicate-coordinates.ts).        *)
(* Their offsets are fractions of a degree: where they run, the unit of a  *)
(* coordinate is 1e-6 degree.                                              *)
(***************************************************************************)
\* <<longitude, latitude>> in this unit
PointPhoenix == <<-112000000, 33000000>>

\* How far from this point the passes may carry a posting in a run.
MaxDrift == 800

Distance(a, b) == IF a >= b THEN a - b ELSE b - a

WithinDrift(table) ==
    \A k \in DOMAIN table :
        /\ Distance(table[k].longitude, PointPhoenix[1]) <= MaxDrift
        /\ Distance(table[k].latitude, PointPhoenix[2]) <= MaxDrift

\* ROUND(x::numeric, 5): to the nearest 10 units, halves away from zero
Round5(x) ==
    IF x >= 0 THEN ((x + 5) \div 10) * 10 ELSE 0 - (((5 - x) \div 10) * 10)

Approved(table) == {k \in DOMAIN table : table[k].status = "APPROVED"}

\* WHERE latitude = $1 AND longitude = $2 AND status = 'APPROVED'
ApprovedAt(table, lat, lon) ==
    {k \in Approved(table) : table[k].latitude = lat /\ table[k].longitude = lon}

\* WHERE ROUND(latitude::numeric, 5) = $1 AND ROUND(longitude::numeric, 5) = $2
\*   AND status = 'APPROVED'
ApprovedNear(table, lat, lon) ==
    {k \in Approved(table) :
        Round5(table[k].latitude) = lat /\ Round5(table[k].longitude) = lon}

\* SELECT latitude, longitude, COUNT(*) FROM jobs WHERE status = 'APPROVED'
\*   GROUP BY latitude, longitude HAVING COUNT(*) > 1
ExactClusters(table) ==
    { c \in { [lat |-> table[k].latitude, lon |-> table[k].longitude,
               count |-> Cardinality(ApprovedAt(table, table[k].latitude,
                                                table[k].longitude))] :
                k \in Approved(table) } : c.count > 1 }

\* The same, grouped by the coordinates rounded to five decimals.
RoundedClusters(table) ==
    { c \in { [lat |-> Round5(table[k].latitude), lon |-> Round5(table[k].longitude),
               count |-> Cardinality(ApprovedNear(table, Round5(table[k].latitude),
                                                  Round5(table[k].longitude)))] :
                k \in Approved(table) } : c.count > 1 }

\* ORDER BY count DESC: the orders in which the clusters may come
ClusterOrders(clusters) ==
    { s \in [1..Cardinality(clusters) -> clusters] :
        \A i, j \in 1..Cardinality(clusters) :
            i < j => s[i] # s[j] /\ s[i].count >= s[j].count }

\* What a reverse lookup made by a pass may answer.
PassAnswers ==
    {r \in ReverseResponses : r.kind = "empty" \/ (r.kind = "features" /\ r.type = "address")}

\* count > 5: a large cluster
LargeCluster == 5

\* (Math.random() - 0.5) * 0.001 for latitude and for longitude: two of the
\* pairs <<latitude offset, longitude offset>> that may be drawn
RandomOffsets == {<<0, 0>>, <<-400, 400>>}

\* The UPDATE of a posting of a small cluster: new coordinates and address
\* when the reverse lookup at the new coordinates has a street, else nothing.
FixRow(row, draw) ==
    LET newLat == row.latitude + draw.offset[1]
        newLon == row.longitude + draw.offset[2]
        address == reverseGeocode(TRUE, draw.answer).address
    IN  IF address # Null /\ Truthy(address[1].street)
        THEN [row EXCEPT !.latitude = newLat,
                         !.longitude = newLon,
                         !.street = address[1].street,
                         !.city = Coalesce(address[1].city, @),
                         !.state = Coalesce(address[1].state, @),
                         !.postalCode = Coalesce(address[1].postalCode, @),
                         !.locationPoint = MakePoint(newLon, newLat)]
        ELSE row

\* One iteration of the cluster loop of fixDuplicateCoordinates (with a
\* token): a large cluster is rejected, a small one is moved job by job.
FixCluster(table, c, draws) ==
    [k \in DOMAIN table |->
        IF k \notin ApprovedAt(table, c.lat, c.lon) THEN table[k]
        ELSE IF c.count > LargeCluster THEN [table[k] EXCEPT !.status = "REJECTED"]
        ELSE FixRow(table[k], draws[k])]

\* The cluster loop: without a token the first reverse lookup throws and the
\* script ends there.
RECURSIVE FixClusters(_, _, _, _)
FixClusters(table, order, draws, token) ==
    IF order = <<>> THEN table
    ELSE LET c == Head(order)
         IN  IF ~token /\ c.count <= LargeCluster
                /\ ApprovedAt(table, c.lat, c.lon) # {}
             THEN table
             ELSE FixClusters(FixCluster(table, c, draws), Tail(order), draws, token)

\* The postings whose coordinates a run of fixDuplicateCoordinates may draw.
InSmallClusters(table) ==
    UNION { ApprovedAt(table, c.lat, c.lon) :
              c \in {x \in ExactClusters(table) : x.count <= LargeCluster} }

\* One run of fixDuplicateCoordinates.
FixDuplicateCoordinatesPass ==
    \E order \in ClusterOrders(ExactClusters(jobs)),
       draws \in [InSmallClusters(jobs) -> [offset : RandomOffsets, answer : PassAnswers]] :
        \E table \in {FixClusters(jobs, order, draws, mapboxToken)} :
            /\ WithinDrift(table)
            /\ jobs' = table
            /\ lastOp' = Op("fix", NoData, NoResult, 1 - lastOp.seq, FALSE)
            /\ UNCHANGED <<nextId, now>>

\* offsetStep = 0.0008
OffsetStep == 800

\* Math.ceil(Math.sqrt(count))
GridSize(count) ==
    CHOOSE g \in 1..count : g * g >= count /\ \A h \in 1..(g - 1) : h * h < count

\* The coordinates of the i-th job (from 0) of a cluster.
SpreadPoint(c, i) ==
    LET gridSize == GridSize(c.count)
        centerOffset == ((gridSize - 1) * OffsetStep) \div 2
    IN  [lat |-> c.lat + (i \div gridSize) * OffsetStep - centerOffset,
         lon |-> c.lon + (i % gridSize) * OffsetStep - centerOffset]

SpreadRowStalePoint(row, point, answer) ==
    LET address == reverseGeocode(TRUE, answer).address
    IN  [row EXCEPT !.latitude = point.lat,
                    !.longitude = point.lon,
                    !.street = IF address # Null /\ Truthy(address[1].street)
                               THEN address[1].street ELSE @]

\* The UPDATE of spreadDuplicateCoordinates: the new coordinates and point,
\* and the street of the reverse lookup if it has one.
SpreadRow(row, point, answer) ==
    LET address == reverseGeocode(TRUE, answer).address
    IN  [row EXCEPT !.latitude = point.lat,
                    !.longitude = point.lon,
                    !.street = IF address # Null /\ Truthy(address[1].street)
                               THEN address[1].street ELSE @,
                    !.locationPoint = MakePoint(point.lon, point.lat)]

\* One iteration of the cluster loop of spreadDuplicateCoordinates: rank is
\* the order in which the SELECT returns the jobs.
SpreadCluster(table, c, rank, answers) ==
    LET members == ApprovedNear(table, c.lat, c.lon)
    IN  [k \in DOMAIN table |->
            IF k \notin members THEN table[k]
            ELSE SpreadRow(table[k],
                           SpreadPoint(c, Cardinality({m \in members : rank[m] < rank[k]})),
                           answers[k])]

RECURSIVE SpreadClusters(_, _, _, _, _)
SpreadClusters(table, order, rank, answers, token) ==
    IF order = <<>> THEN table
    ELSE LET c == Head(order)
         IN  IF ~token /\ ApprovedNear(table, c.lat, c.lon) # {}
             THEN table
             ELSE SpreadClusters(SpreadCluster(table, c, rank, answers), Tail(order),
                                 rank, answers, token)

\* The orders in which a SELECT without ORDER BY may return a set of rows.
Rankings(keys) ==
    { r \in [keys -> 1..Cardinality(keys)] : \A a, b \in keys : a # b => r[a] # r[b] }

InRoundedClusters(table) ==
    UNION { ApprovedNear(table, c.lat, c.lon) : c \in RoundedClusters(table) }

\* One run of spreadDuplicateCoordinates.
SpreadDuplicateCoordinatesPass ==
    \E order \in ClusterOrders(RoundedClusters(jobs)),
       rank \in Rankings(InRoundedClusters(jobs)),
       answers \in [InRoundedClusters(jobs) -> PassAnswers] :
        \E table \in {SpreadClusters(jobs, order, rank, answers, mapboxToken)} :
            /\ WithinDrift(table)
            /\ jobs' = table
            /\ lastOp' = Op("spread", NoData, NoResult, 1 - lastOp.seq, FALSE)
            /\ UNCHANGED <<nextId, now>>

(***************************************************************************)
(* Search in a bounding box while postings are written and moved           *)
(***************************************************************************)
\* A box around PointPhoenix that holds the grid of a spread cluster of two,
\* and not the points two passes away.
BoxPhoenix == <<-112000500, 32999500, -111999500, 33000500>>

SearchBox == [Query(Null, Null, Null, Null) EXCEPT !.bbox = BoxPhoenix]

BboxInputs ==
    { JobInput("ADZUNA", id, TitleNurse, Some(StreetMain), point, "APPROVED") :
        id \in {"a1", "a2"}, point \in {PointPhoenix} }

BboxInit ==
    /\ StoreInit
    /\ procs = NoProcs
    /\ geocodeCache = <<>>
    /\ mapboxToken \in BOOLEAN
    /\ geoLast = [address |-> AddressEmpty, key |-> <<>>, out |-> NoGeoCall,
                  prior |-> NoGeoCall]
    /\ redis = TRUE
    /\ cacheStore = <<>>
    /\ lastReq = NoRequest

BboxNext ==
    \/ (\E data \in BboxInputs : Upsert(data)) /\ NoRequestStep
    \/ FixDuplicateCoordinatesPass /\ NoRequestStep
    \/ SpreadDuplicateCoordinatesPass /\ NoRequestStep
    \/ SearchRequest(SearchBox) /\ UNCHANGED <<storeVars, procs, geoVars>>

SpecBbox == BboxInit /\ [][BboxNext]_vars

\* C12: every posting of a search response has its longitude and latitude
\* inside the bounding box of the request, whatever upserts and coordinate
\* passes came before it.
C12_PinsInsideBbox ==
    (lastReq.route = "search" /\ lastReq.code = 200)
    => \A i \in DOMAIN JSONparse(lastReq.body).jobs :
          LET pin == JSONparse(lastReq.body).jobs[i]
              bbox == lastReq.params.bbox
          IN  /\ bbox[1] <= pin.lon /\ pin.lon <= bbox[3]
              /\ bbox[2] <= pin.lat /\ pin.lat <= bbox[4]

\* A search that ran its query has returned one posting while a pass has
\* carried the other one out of the box.
C12_Witness ==
    /\ lastReq.route = "search" /\ lastReq.code = 200 /\ lastReq.queried
    /\ Len(JSONparse(lastReq.body).jobs) = 1
    /\ \E k \in DOMAIN jobs :
          /\ jobs[k].status = "APPROVED" /\ jobs[k].street = Some(StreetOak)
          /\ ~InEnvelope(<<jobs[k].longitude, jobs[k].latitude>>, BoxPhoenix)

(***************************************************************************)
(* Filters and limit of the search (SpecSearch)                            *)
(***************************************************************************)
Pins == JSONparse(lastReq.body).jobs

\* The list of employment types a query asks for: the types list, else the
\* single type, else nothing.
RequestedTypes(query) ==
    IF Truthy(query.types) THEN query.types
    ELSE IF query.type # Null THEN Some(<<query.type[1]>>) ELSE Null

LimitValid(query) ==
    query.limit = Null
    \/ (PositiveInt(query.limit) /\ query.limit[1].value <= MaxLimit)

\* C14: a search response holds at most `limit` postings (200 when the limit is
\* omitted) and its count is the number of postings it holds; a request whose
\* limit is not an integer in 1..500 is answered 400 and runs no query.
C14_LimitAndCount ==
    lastReq.route = "search"
    => IF LimitValid(lastReq.query)
       THEN lastReq.code = 200 =>
               /\ lastReq.params.limit =
                     (IF lastReq.query.limit = Null THEN 200
                      ELSE lastReq.query.limit[1].value)
               /\ Len(Pins) <= lastReq.params.limit
               /\ JSONparse(lastReq.body).count = Len(Pins)
       ELSE lastReq.code = 400 /\ ~lastReq.queried /\ ~lastReq.stored

\* A search with limit 2 over the four postings has run its query and
\* returned two of them.
C14_Witness ==
    /\ lastReq.route = "search" /\ lastReq.code = 200 /\ lastReq.queried
    /\ lastReq.query.limit = RawInt(2)
    /\ Cardinality(DOMAIN jobs) = 4
    /\ Len(Pins) = 2 /\ JSONparse(lastReq.body).count = 2

(***************************************************************************)
(* lib/geocode.ts: reverseGeocode over the candidates of one response      *)
(***************************************************************************)
TextCafe == <<"C", "a", "f", "e">>

\* The candidates the service may return: each has a text; a poi may have a
\* name and an address, an address may have a house number.
Candidates ==
    { Feature("poi", TextOakSt, Some(<<"2">>), Some(TextCafe)),
      Feature("poi", TextCafe, Null, Null),
      Feature("address", TextOakSt, Some(<<"2">>), Null),
      Feature("address", TextCentralAve, Null, Null),
      Feature("street", TextOakSt, Null, Null),
      Feature("place", TextPhoenix, Null, Null),
      Feature("region", TextAZ, Null, Null),
      Feature("postcode", Text85004, Null, Null) }

\* The longest list of candidates explored (the request asks for limit=5).
MaxCandidates == 3

CandidateLists == UNION { [1..n -> Candidates] : n \in 1..MaxCandidates }

\* What the service may answer: a failure, no feature, or candidates.
CandidateResponses ==
    { [kind |-> k] : k \in {"throws", "notok", "empty"} }
    \cup { [kind |-> "features", features |-> fs] : fs \in CandidateLists }

\* precision of a feature type
Precision(featureType) ==
    IF featureType = "poi" THEN 3
    ELSE IF featureType = "address" THEN 2
    ELSE IF featureType = "street" THEN 1
    ELSE 0

\* The loop over data.features: the first feature of the greatest precision
\* above bestPrecision, else the feature held so far.
RECURSIVE MostPrecise(_, _, _)
MostPrecise(features, feature, bestPrecision) ==
    IF features = <<>> THEN feature
    ELSE IF Precision(Head(features).type) > bestPrecision
    THEN MostPrecise(Tail(features), Head(features), Precision(Head(features).type))
    ELSE MostPrecise(Tail(features), feature, bestPrecision)

FirstFeature(features) == features[1]

\* let feature = data.features[0]; let bestPrecision = 0; for (...) ...
BestFeature(features) == MostPrecise(features, features[1], 0)

\* reverseGeocode(lat, lon) for a response with all its candidates.
reverseGeocodeCandidates(token, response) ==
    IF ~token THEN [threw |-> TRUE, address |-> Null]
    ELSE IF response.kind # "features" THEN [threw |-> FALSE, address |-> Null]
    ELSE reverseGeocode(token, BestFeature(response.features))

\* One reverseGeocode(lat, lon) call; its result is held in geoLast until
\* the caller has taken it.
Reverse ==
    \E response \in CandidateResponses :
        /\ geoLast.op = "none"
        /\ geoLast' = [op |-> "reverse", response |-> response,
                       out |-> reverseGeocodeCandidates(mapboxToken, response)]
        /\ UNCHANGED <<geocodeCache, mapboxToken>>

\* The caller takes the result.
ReverseTaken ==
    /\ geoLast.op = "reverse"
    /\ geoLast' = [op |-> "none"]
    /\ UNCHANGED <<geocodeCache, mapboxToken>>

\* The token is set or removed between two calls.
SetToken ==
    /\ geoLast.op = "none"
    /\ mapboxToken' = ~mapboxToken
    /\ UNCHANGED <<geocodeCache, geoLast>>

ReverseInit ==
    /\ StoreInit
    /\ procs = NoProcs
    /\ geocodeCache = <<>>
    /\ mapboxToken = TRUE
    /\ geoLast = [op |-> "none"]
    /\ CacheIdle

ReverseNext ==
    \/ Reverse /\ UNCHANGED <<storeVars, procs, cacheVars>>
    \/ ReverseTaken /\ UNCHANGED <<storeVars, procs, cacheVars>>
    \/ SetToken /\ UNCHANGED <<storeVars, procs, cacheVars>>

SpecReverse == ReverseInit /\ [][ReverseNext]_vars

\* The ranks of the candidate types: poi > address > street > anything else.
Rank(type) == CASE type = "poi" -> 3 [] type = "address" -> 2
                [] type = "street" -> 1 [] OTHER -> 0

\* The call just made got candidates from the service.
Reversed ==
    geoLast.op = "reverse" /\ mapboxToken /\ geoLast.response.kind = "features"

\* C15: a reverse lookup (allowImprecise not set) that got candidates returns
\* null when every candidate is a place or a region, returns an address with a
\* non-empty street when some candidate is a poi or an address, and what it
\* returns comes from a candidate of the greatest rank.
C15_ReversePrecision ==
    Reversed =>
        LET fs == geoLast.response.features
            out == geoLast.out
        IN  /\ ~out.threw
            /\ (\A i \in DOMAIN fs : fs[i].type \in {"place", "region"})
                  => out.address = Null
            /\ (\E i \in DOMAIN fs : fs[i].type \in {"poi", "address"})
                  => out.address # Null /\ Truthy(out.address[1].street)
            /\ \E i \in DOMAIN fs :
                  /\ \A j \in DOMAIN fs : Rank(fs[j].type) <= Rank(fs[i].type)
                  /\ out = reverseGeocode(TRUE, fs[i])

\* A place, an address and a poi came back in this order and the street is
\* that of the poi.
C15_Witness ==
    /\ Reversed
    /\ Len(geoLast.response.features) = 3
    /\ geoLast.response.features[1].type = "place"
    /\ geoLast.response.features[2].type = "address"
    /\ geoLast.response.features[3] = Feature("poi", TextCafe, Null, Null)
    /\ geoLast.out.address # Null
    /\ geoLast.out.address[1].street = Some(TextCafe)

(***************************************************************************)
(* lib/geocode.ts: geocodeAddress and geocodeAddressSafe with the faults   *)
(* of the cache table and of the service in view                           *)
(***************************************************************************)
\* What geocodeAddressSafe may be given: an address object or a string.
SafeInputs ==
    { [kind |-> "address", address |-> a] : a \in {AddressCentralAve, AddressEmpty} }
    \cup { [kind |-> "string", text |-> t] : t \in {TextPhoenixAZ, EmptyText} }

\* What geocodeAddress is given.
ResolverAddresses == {AddressCentralAve, AddressPhoenix, AddressEmpty}

\* typeof address === "string" ? the address parsed from it : address,
\* computed once for each of these inputs
AddressObject ==
    [input \in SafeInputs |->
        IF input.kind = "string" THEN AddressOfString(input.text) ELSE input.address]

geocodeAddressSafeRethrows(cache, input, token, readOk, main, writeOk) ==
    LET addressObj == AddressObject[input]
        res == geocodeAddress(cache, addressObj, token, readOk, main, writeOk)
    IN  [cache |-> res.cache, threw |-> res.threw,
         result |-> IF res.threw THEN Null ELSE Some(res.center)]

\* geocodeAddressSafe(address) for an address object or a string: try { return
\* await geocodeAddress(addressObj) } catch { return null }.
geocodeAddressSafeInput(cache, input, token, readOk, main, writeOk) ==
    LET addressObj == AddressObject[input]
        safe == geocodeAddressSafe(cache, addressObj, token, readOk, main, writeOk)
    IN  [cache |-> safe.cache, threw |-> FALSE, result |-> safe.result]

\* One geocodeAddress(address) call, with the faults it met.
ForwardCall ==
    \E address \in ResolverAddresses, readOk \in BOOLEAN, writeOk \in BOOLEAN,
       main \in MainResponses :
        \E res \in {geocodeAddress(geocodeCache, address, mapboxToken, readOk, main, writeOk)} :
            /\ geocodeCache' = res.cache
            /\ geoLast' = [op |-> "forward", address |-> address, readOk |-> readOk,
                           writeOk |-> writeOk, main |-> main,
                           cached |-> KeyOf(address) \in DOMAIN geocodeCache,
                           out |-> [threw |-> res.threw, center |-> res.center,
                                    requests |-> res.requests]]
            /\ UNCHANGED mapboxToken

\* One geocodeAddressSafe(input) call; forward is what geocodeAddress does
\* with the address object made of the input.
ForwardSafeCall ==
    \E input \in SafeInputs, readOk \in BOOLEAN, writeOk \in BOOLEAN,
       main \in MainResponses :
        \E safe \in {geocodeAddressSafeInput(geocodeCache, input, mapboxToken, readOk,
                                             main, writeOk)},
           res \in {geocodeAddress(geocodeCache, AddressObject[input], mapboxToken,
                                   readOk, main, writeOk)} :
            /\ geocodeCache' = safe.cache
            /\ geoLast' = [op |-> "safe", input |-> input, readOk |-> readOk,
                           writeOk |-> writeOk, main |-> main,
                           forward |-> [threw |-> res.threw, center |-> res.center],
                           out |-> [threw |-> safe.threw, result |-> safe.result]]
            /\ UNCHANGED mapboxToken

ResolverInit ==
    /\ StoreInit
    /\ procs = NoProcs
    /\ geocodeCache = <<>>
    /\ mapboxToken \in BOOLEAN
    /\ geoLast = [op |-> "none"]
    /\ CacheIdle

ResolverNext ==
    \/ ForwardCall /\ UNCHANGED <<storeVars, procs, cacheVars>>
    \/ ForwardSafeCall /\ UNCHANGED <<storeVars, procs, cacheVars>>

SpecResolver == ResolverInit /\ [][ResolverNext]_vars

\* C16: geocodeAddressSafe never throws; it returns coordinates or null, and
\* null whenever geocodeAddress of the same address throws.
C16_SafeNeverThrows ==
    geoLast.op = "safe"
    => /\ ~geoLast.out.threw
       /\ geoLast.out.result = Null \/ geoLast.out.result[1] \in GeoPoints
       /\ geoLast.forward.threw => geoLast.out.result = Null
       /\ ~geoLast.forward.threw => geoLast.out.result = Some(geoLast.forward.center)

\* The string "Phoenix, AZ" has been given while the service failed, and null
\* has come back.
C16_Witness ==
    /\ geoLast.op = "safe"
    /\ geoLast.input = [kind |-> "string", text |-> TextPhoenixAZ]
    /\ mapboxToken /\ geoLast.main.kind = "throws"
    /\ geoLast.forward.threw
    /\ geoLast.out.result = Null

\* C17: a failure of the geocode cache never makes geocodeAddress fail: when
\* the lookup fails the call goes on to the service and ends as the service
\* call ends, and when the upsert fails after the service has answered the
\* call still returns the service's coordinates.
C17_CacheFailureNotFatal ==
    geoLast.op = "forward"
    => LET res == geocodeWithMapbox(geoLast.address, mapboxToken, geoLast.main)
       IN  /\ ~geoLast.readOk =>
                 /\ geoLast.out.threw = res.threw
                 /\ geoLast.out.requests = res.requests
                 /\ ~res.threw => geoLast.out.center = res.center
           /\ (~geoLast.writeOk /\ ~res.threw /\ ~(geoLast.readOk /\ geoLast.cached)) =>
                 /\ ~geoLast.out.threw
                 /\ geoLast.out.center = res.center

\* The lookup of an address that is in the cache has failed, then the upsert
\* has failed too, and the call has returned the coordinates of the service.
C17_Witness ==
    /\ geoLast.op = "forward"
    /\ ~geoLast.readOk /\ ~geoLast.writeOk /\ geoLast.cached
    /\ geoLast.main.kind = "feature"
    /\ ~geoLast.out.threw
    /\ geoLast.out.requests > 0
    /\ geoLast.out.center = geoLast.main.center

(***************************************************************************)
(* ingest/index.ts (ingestAll), scripts/ingest-phoenix-valley.ts           *)
(* (ingestLocation) and the loop of one source's ingestion                 *)
(***************************************************************************)
\* The posting that a source's normalizer makes of the fetched job `id`.
SourcePosting(source, id) ==
    JobInput(source, id, TitleNurse, Some(StreetMain), CoordPhoenix, Undefined)

\* How one iteration of the loop may go: the normalizer returns a posting,
\* returns null or throws, or the database fails under upsertJob.
Outcomes == {"ok", "null", "throws", "dbfail"}

ZeroMetrics == [fetched |-> 0, normalized |-> 0, created |-> 0, updated |-> 0, failed |-> 0]

RECURSIVE ingestLoopAbortsOnFailure(_, _, _, _, _, _)
ingestLoopAbortsOnFailure(source, table, id, t, work, metrics) ==
    IF work = <<>> THEN [table |-> table, nextId |-> id, metrics |-> metrics]
    ELSE LET w == Head(work)
             res == upsertJob(table, SourcePosting(source, w.id), id, t)
         IN  IF w.outcome # "ok" \/ res.threw
             THEN [table |-> table, nextId |-> id,
                   metrics |-> [metrics EXCEPT !.failed = @ + 1]]
             ELSE ingestLoopAbortsOnFailure(source, res.table,
                        IF res.created THEN id + 1 ELSE id, t, Tail(work),
                        [metrics EXCEPT !.normalized = @ + 1,
                                        !.created = @ + (IF res.created THEN 1 ELSE 0),
                                        !.updated = @ + (IF res.created THEN 0 ELSE 1)])

\* for (const job of jobs) { try { normalize; upsertJob } catch { failed++ } }:
\* work is the fetched jobs, each with how its iteration goes.
RECURSIVE ingestLoop(_, _, _, _, _, _)
ingestLoop(source, table, id, t, work, metrics) ==
    IF work = <<>> THEN [table |-> table, nextId |-> id, metrics |-> metrics]
    ELSE LET w == Head(work)
         IN  IF w.outcome \in {"null", "throws"}
             THEN ingestLoop(source, table, id, t, Tail(work),
                             [metrics EXCEPT !.failed = @ + 1])
             ELSE LET res == IF w.outcome = "dbfail"
                             THEN [table |-> table, threw |-> TRUE, created |-> FALSE]
                             ELSE upsertJob(table, SourcePosting(source, w.id), id, t)
                  IN  IF res.threw
                      THEN ingestLoop(source, table, id, t, Tail(work),
                                      [metrics EXCEPT !.normalized = @ + 1,
                                                      !.failed = @ + 1])
                      ELSE ingestLoop(source, res.table,
                                      IF res.created THEN id + 1 ELSE id, t, Tail(work),
                                      [metrics EXCEPT
                                          !.normalized = @ + 1,
                                          !.created = @ + (IF res.created THEN 1 ELSE 0),
                                          !.updated = @ + (IF res.created THEN 0 ELSE 1)])

\* One source's ingestion: the fetch throws, or the loop runs over what was
\* fetched and the function returns its metrics, or (where a browser is
\* closed or a further page is fetched afterwards) throws late.
ingestSource(source, table, id, t, fetchOk, work, lateThrow) ==
    IF ~fetchOk
    THEN [table |-> table, nextId |-> id, threw |-> TRUE, metrics |-> ZeroMetrics]
    ELSE LET r == ingestLoop(source, table, id, t, work,
                             [ZeroMetrics EXCEPT !.fetched = Len(work)])
         IN  [table |-> r.table, nextId |-> r.nextId, threw |-> lateThrow,
              metrics |-> r.metrics]

\* The sources in the order in which ingestAll runs them.
AllSources ==
    <<"ADZUNA", "USAJOBS", "LINKEDIN", "INDEED", "ZIPRECRUITER", "ARIZONA_JOB_CONNECTION">>

\* The sources in the order in which ingestLocation runs them; Indeed only
\* if (isScraperAPIConfigured()).
LocationSources(scraper) ==
    <<"ADZUNA", "ARIZONA_JOB_CONNECTION">>
    \o (IF scraper THEN <<"INDEED">> ELSE <<>>)
    \o <<"LINKEDIN", "ZIPRECRUITER">>

RunOrder(kind, scraper) ==
    IF kind = "ingestAll" THEN AllSources ELSE LocationSources(scraper)

NoRun ==
    [kind |-> "none", scraper |-> FALSE, pc |-> 0, started |-> <<>>, failed |-> <<>>,
     done |-> TRUE, raised |-> FALSE, last |-> [source |-> "none"]]

AfterSourceUncaught(run, source, res) ==
    [run EXCEPT !.pc = @ + 1,
                !.started = Append(@, source),
                !.failed = Append(@, res.threw),
                !.done = res.threw,
                !.raised = res.threw]

\* try { results.x = await ingestX(...) } catch { results.x.failed = -1 }
AfterSource(run, source, res) ==
    [run EXCEPT !.pc = @ + 1,
                !.started = Append(@, source),
                !.failed = Append(@, res.threw)]

\* The longest list of jobs that the Adzuna fetch returns in a run.
MaxPostings == 2

\* What a source may fetch, with how each iteration goes.
Work(source) ==
    IF source = "ADZUNA"
    THEN UNION { [1..n -> [id : {"a1", ""}, outcome : Outcomes]] : n \in 0..MaxPostings }
    ELSE {<<>>, <<[id |-> "1", outcome |-> "ok"]>>, <<[id |-> "1", outcome |-> "null"]>>}

\* ingestAll(), or ingestLocation(location, keyword), is called.
StartRun ==
    \E kind \in {"ingestAll", "ingestLocation"}, scraper \in BOOLEAN :
        /\ procs["run"].kind = "none"
        /\ procs' = [p \in {"run"} |->
                        [NoRun EXCEPT !.kind = kind, !.scraper = scraper, !.done = FALSE]]
        /\ UNCHANGED storeVars

\* The next try block of the run: one source's ingestion from start to end.
RunSource ==
    LET run == procs["run"]
        order == RunOrder(run.kind, run.scraper)
    IN  /\ ~run.done /\ run.pc < Len(order)
        /\ \E fetchOk \in BOOLEAN, work \in Work(order[run.pc + 1]),
              lateThrow \in (IF order[run.pc + 1] = "ADZUNA" THEN {FALSE} ELSE BOOLEAN) :
              \E res \in {ingestSource(order[run.pc + 1], jobs, nextId, now, fetchOk,
                                       work, lateThrow)} :
                  /\ jobs' = res.table
                  /\ nextId' = res.nextId
                  /\ procs' = [p \in {"run"} |->
                        [AfterSource(run, order[run.pc + 1], res) EXCEPT
                            !.last = IF order[run.pc + 1] = "ADZUNA"
                                     THEN [source |-> "ADZUNA", fetchOk |-> fetchOk,
                                           work |-> work, threw |-> res.threw,
                                           metrics |-> res.metrics]
                                     ELSE [source |-> order[run.pc + 1]]]]
                  /\ UNCHANGED <<now, lastOp>>

\* The summary is printed and the run returns.
FinishRun ==
    /\ ~procs["run"].done
    /\ procs["run"].pc = Len(RunOrder(procs["run"].kind, procs["run"].scraper))
    /\ procs' = [procs EXCEPT !["run"].done = TRUE]
    /\ UNCHANGED storeVars

RunInit ==
    /\ StoreInit
    /\ procs = [p \in {"run"} |-> NoRun]
    /\ GeoIdle
    /\ CacheIdle

RunNext ==
    \/ StartRun /\ UNCHANGED <<geoVars, cacheVars>>
    \/ RunSource /\ UNCHANGED <<geoVars, cacheVars>>
    \/ FinishRun /\ UNCHANGED <<geoVars, cacheVars>>

SpecRun == RunInit /\ [][RunNext]_vars

\* The sources a run is to start, in order: six for a run over all sources;
\* for a location run five, Indeed among them when ScraperAPI is configured.
ExpectedSources(run) ==
    IF run.kind = "ingestAll"
    THEN <<"ADZUNA", "USAJOBS", "LINKEDIN", "INDEED", "ZIPRECRUITER",
           "ARIZONA_JOB_CONNECTION">>
    ELSE IF run.scraper
    THEN <<"ADZUNA", "ARIZONA_JOB_CONNECTION", "INDEED", "LINKEDIN", "ZIPRECRUITER">>
    ELSE <<"ADZUNA", "ARIZONA_JOB_CONNECTION", "LINKEDIN", "ZIPRECRUITER">>

\* C18: in a run over the sources, every source's ingestion is started once,
\* in order, whether or not an earlier one failed; a failing ingestion leaves
\* the rows of the other sources as they were; the run never raises and ends
\* only after the last source.
C18_SourcesIsolated ==
    [][ LET run == procs'["run"]
        IN  run.kind # "none" =>
              /\ ~run.raised
              /\ run.started = SubSeq(ExpectedSources(run), 1, run.pc)
              /\ run.done => run.pc = Len(ExpectedSources(run))
              /\ (run.pc = procs["run"].pc + 1 /\ run.failed[run.pc]) =>
                    \A k \in DOMAIN jobs :
                        jobs[k].source # run.started[run.pc]
                        => k \in DOMAIN jobs' /\ jobs'[k] = jobs[k] ]_vars

\* A run over all sources has ended: Adzuna and LinkedIn failed, the six
\* sources were started, and the rows of USAJOBS and ZipRecruiter are stored.
C18_Witness ==
    /\ procs["run"].kind = "ingestAll" /\ procs["run"].done
    /\ procs["run"].failed = <<TRUE, FALSE, TRUE, FALSE, FALSE, FALSE>>
    /\ Len(procs["run"].started) = 6
    /\ <<"USAJOBS", "1">> \in DOMAIN jobs
    /\ <<"LINKEDIN", "1">> \in DOMAIN jobs
    /\ <<"ZIPRECRUITER", "1">> \in DOMAIN jobs

\* An iteration that is skipped and counted as failed: the normalizer returns
\* null or throws, or upsertJob throws (the database fails, or the sourceId
\* is empty).
Fails(w) == w.outcome # "ok" \/ w.id = ""

\* The Adzuna ingestion of the run has fetched its jobs and ended.
AdzunaRan == procs["run"].last.source = "ADZUNA" /\ procs["run"].last.fetchOk

\* C19: in one source's ingestion, a posting whose normalization returns null
\* or throws, or whose upsert throws, is counted as failed and skipped; every
\* other posting of the run is stored and counted, and the run does not throw.
C19_PostingFailureSkipped ==
    AdzunaRan =>
        LET last == procs["run"].last
            failing == {i \in DOMAIN last.work : Fails(last.work[i])}
        IN  /\ ~last.threw
            /\ last.metrics.fetched = Len(last.work)
            /\ last.metrics.failed = Cardinality(failing)
            /\ last.metrics.created + last.metrics.updated
                  = Len(last.work) - Cardinality(failing)
            /\ \A i \in DOMAIN last.work \ failing :
                  <<"ADZUNA", last.work[i].id>> \in DOMAIN jobs

\* The normalizer threw for the first of two postings and the second one was
\* stored.
C19_Witness ==
    /\ AdzunaRan
    /\ procs["run"].last.work = <<[id |-> "a1", outcome |-> "throws"],
                                  [id |-> "a1", outcome |-> "ok"]>>
    /\ procs["run"].last.metrics.failed = 1
    /\ procs["run"].last.metrics.created = 1
    /\ <<"ADZUNA", "a1">> \in DOMAIN jobs

(***************************************************************************)
(* The collision passes over six approved postings at one coordinate       *)
(***************************************************************************)
SixIds == <<"a1", "a2", "a3", "a4", "a5", "a6">>

\* Six approved postings with the same street at PointPhoenix.
SixAtOnePoint ==
    TableOf([i \in DOMAIN SixIds |->
                JobInput("ADZUNA", SixIds[i], TitleNurse, Some(StreetMain), PointPhoenix,
                         "APPROVED")])

CollisionInit ==
    /\ jobs = SixAtOnePoint
    /\ nextId = Len(SixIds) + 1
    /\ now = 0
    /\ lastOp = Op("none", NoData, NoResult, 0, FALSE)
    /\ procs = NoProcs
    /\ geocodeCache = <<>>
    /\ mapboxToken \in BOOLEAN
    /\ geoLast = [address |-> AddressEmpty, key |-> <<>>, out |-> NoGeoCall,
                  prior |-> NoGeoCall]
    /\ CacheIdle

CollisionNext ==
    \/ FixDuplicateCoordinatesPass /\ UNCHANGED <<procs, geoVars, cacheVars>>
    \/ SpreadDuplicateCoordinatesPass /\ UNCHANGED <<procs, geoVars, cacheVars>>

SpecCollision == CollisionInit /\ [][CollisionNext]_vars

\* C20: once a collision pass has run over the six approved postings at one
\* coordinate, either all six are at pairwise distinct coordinates with
\* pairwise distinct streets, or none of the six is approved.
C20_SixMovedOrDemoted ==
    lastOp.op \in {"fix", "spread"}
    => \/ \A k \in DOMAIN jobs : jobs[k].status # "APPROVED"
       \/ \A k, m \in DOMAIN jobs :
             k # m => /\ <<jobs[k].latitude, jobs[k].longitude>>
                            # <<jobs[m].latitude, jobs[m].longitude>>
                      /\ jobs[k].street # jobs[m].street

(***************************************************************************)
(* fixDuplicateCoordinates over a small cluster                            *)
(***************************************************************************)
\* n approved postings with the same street at PointPhoenix.
ClusterAtOnePoint(n) ==
    TableOf([i \in 1..n |->
                JobInput("ADZUNA", SixIds[i], TitleNurse, Some(StreetMain), PointPhoenix,
                         "APPROVED")])

SmallClusterInit ==
    /\ \E n \in 2..LargeCluster : jobs = ClusterAtOnePoint(n) /\ nextId = n + 1
    /\ now = 0
    /\ lastOp = Op("none", NoData, NoResult, 0, FALSE)
    /\ procs = NoProcs
    /\ geocodeCache = <<>>
    /\ mapboxToken \in BOOLEAN
    /\ geoLast = [address |-> AddressEmpty, key |-> <<>>, out |-> NoGeoCall,
                  prior |-> NoGeoCall]
    /\ CacheIdle

SmallClusterNext ==
    FixDuplicateCoordinatesPass /\ UNCHANGED <<procs, geoVars, cacheVars>>

SpecSmallCluster == SmallClusterInit /\ [][SmallClusterNext]_vars

\* C21: once fixDuplicateCoordinates has run over a cluster of 2 to 5 approved
\* postings at one coordinate, each of them either is at another coordinate
\* with the street of the reverse lookup made there, or is not approved; none
\* is still approved at the shared coordinate.
C21_SmallClusterMovedOrDemoted ==
    lastOp.op = "fix"
    => \A k \in DOMAIN jobs :
          \/ jobs[k].status # "APPROVED"
          \/ /\ <<jobs[k].longitude, jobs[k].latitude>> # PointPhoenix
             /\ jobs[k].street = Some(StreetOak)

(***************************************************************************)
(* The spatial point after an upsert                                       *)
(***************************************************************************)
PointCurrent(row) == row.locationPoint = MakePoint(row.longitude, row.latitude)

\* C22: after every completed upsertJob call of a sequential run, insert or
\* update, the locationPoint of the record is the point made from its stored
\* longitude and latitude.
C22_PointFollowsCoordinates ==
    (lastOp.op = "upsert" /\ ~lastOp.threw)
    => /\ IdentityOf(lastOp.data) \in DOMAIN jobs
       /\ PointCurrent(jobs[IdentityOf(lastOp.data)])

\* An update that moved a record inserted at CoordPhoenix to CoordTempe.
C22_Witness ==
    /\ lastOp.op = "upsert" /\ ~lastOp.threw /\ ~lastOp.created
    /\ IdentityOf(lastOp.data) \in DOMAIN jobs
    /\ LET row == jobs[IdentityOf(lastOp.data)]
       IN  /\ <<row.longitude, row.latitude>> = CoordTempe
           /\ row.locationPoint = MakePoint(CoordTempe[1], CoordTempe[2])
           /\ row.createdAt < row.updatedAt

\* C24: when two upsertJob calls for one existing record have interleaved their
\* statements and both have returned, the locationPoint of the record is the
\* point made from the longitude and latitude that are stored at the end.
C24_RacePointCurrent ==
    (\A p \in Procs : procs[p].pc = "returned" /\ procs[p].existing # NoExisting)
    => PointCurrent(jobs[RaceKey])

(***************************************************************************)
(* fetchWithRetry of the USAJOBS adapter                                   *)
(***************************************************************************)
DefaultMaxRetries == 3

DefaultBaseDelay == 1000

NaN == <<>>

DigitValue(c) ==
    CHOOSE n \in 0..9 : <<"0", "1", "2", "3", "4", "5", "6", "7", "8", "9">>[n + 1] = c

RECURSIVE LeadingDigits(_)
LeadingDigits(text) ==
    IF text = <<>> \/ Head(text) \notin Digits
    THEN <<>>
    ELSE <<Head(text)>> \o LeadingDigits(Tail(text))

RECURSIVE DecimalValue(_)
DecimalValue(digits) ==
    IF digits = <<>>
    THEN 0
    ELSE 10 * DecimalValue(SubSeq(digits, 1, Len(digits) - 1)) + DigitValue(digits[Len(digits)])

\* parseInt(text): the number of the leading digits, NaN when there are none.
parseInt(text) ==
    IF LeadingDigits(text) = <<>> THEN NaN ELSE <<DecimalValue(LeadingDigits(text))>>

RECURSIVE Pow2(_)
Pow2(n) == IF n = 0 THEN 1 ELSE 2 * Pow2(n - 1)

\* baseDelay * Math.pow(2, attempt)
Backoff(baseDelay, attempt) == <<baseDelay * Pow2(attempt)>>

RetryDelayIgnoresHeader(retryAfter, baseDelay, attempt) == Backoff(baseDelay, attempt)

\* retryAfter ? parseInt(retryAfter) * 1000 : baseDelay * Math.pow(2, attempt)
\* in milliseconds; NaN when the header does not start with a digit.
RetryDelay(retryAfter, baseDelay, attempt) ==
    IF Truthy(retryAfter)
    THEN IF parseInt(retryAfter[1]) = NaN THEN NaN ELSE <<parseInt(retryAfter[1])[1] * 1000>>
    ELSE Backoff(baseDelay, attempt)

\* Retry-After headers with the seconds they name.
HeaderSeconds ==
    { <<Some(<<"0">>), 0>>, <<Some(<<"2">>), 2>>, <<Some(<<"1", "0">>), 10>> }

\* headers.get("Retry-After"): absent, a number of seconds, empty, a date.
RetryAfterHeaders ==
    {Null, Some(<<>>), Some(<<"W", "e", "d">>)} \cup {h[1] : h \in HeaderSeconds}

\* What one fetch(url, {headers}) settles with.
FetchResults ==
    {[kind |-> "response", status |-> 200, retryAfter |-> Null],
     [kind |-> "response", status |-> 500, retryAfter |-> Null],
     [kind |-> "error", status |-> 0, retryAfter |-> Null]}
    \cup {[kind |-> "response", status |-> 429, retryAfter |-> h] : h \in RetryAfterHeaders}

ResponseOk(result) == result.kind = "response" /\ result.status \in 200..299

\* One iteration of the loop up to its sleep, return or throw.
fetchAttempt(call, result) ==
    LET made == [call EXCEPT !.requests = @ + 1]
    IN  IF result.kind = "response" /\ result.status = 429
        THEN LET delay == RetryDelay(result.retryAfter, call.baseDelay, call.attempt)
             IN  [made EXCEPT !.pc = "sleep",
                              !.log = Append(@, [result |-> result, delay |-> delay])]
        ELSE IF ResponseOk(result)
        THEN [made EXCEPT !.pc = "returned",
                          !.log = Append(@, [result |-> result, delay |-> NaN])]
        ELSE IF call.attempt = call.maxRetries - 1
        THEN [made EXCEPT !.pc = "threw",
                          !.log = Append(@, [result |-> result, delay |-> NaN])]
        ELSE [made EXCEPT !.pc = "sleep",
                          !.log = Append(@, [result |-> result,
                                             delay |-> Backoff(call.baseDelay, call.attempt)])]

\* fetchWithRetry(url, headers, maxRetries, baseDelay) entered.
FetchCall(maxRetries, baseDelay) ==
    [pc |-> "fetch", maxRetries |-> maxRetries, baseDelay |-> baseDelay,
     attempt |-> 0, requests |-> 0, log |-> <<>>]

FetchAttempt ==
    /\ procs.pc = "fetch"
    /\ procs.attempt < procs.maxRetries
    /\ \E result \in FetchResults : procs' = fetchAttempt(procs, result)
    /\ UNCHANGED <<storeVars, geoVars, cacheVars>>

\* await sleep(delay) is over; the for statement increments attempt.
FetchSleep ==
    /\ procs.pc = "sleep"
    /\ procs' = [procs EXCEPT !.pc = "fetch", !.attempt = @ + 1]
    /\ UNCHANGED <<storeVars, geoVars, cacheVars>>

\* The loop condition fails: throw new Error("Max retries exceeded").
FetchExhausted ==
    /\ procs.pc = "fetch"
    /\ procs.attempt >= procs.maxRetries
    /\ procs' = [procs EXCEPT !.pc = "threw"]
    /\ UNCHANGED <<storeVars, geoVars, cacheVars>>

FetchInit ==
    /\ StoreInit
    /\ \E maxRetries \in 0..DefaultMaxRetries, baseDelay \in {DefaultBaseDelay, 500} :
          procs = FetchCall(maxRetries, baseDelay)
    /\ GeoIdle
    /\ CacheIdle

FetchNext == FetchAttempt \/ FetchSleep \/ FetchExhausted

\* Every fetch settles and every timer fires, so a step that can be taken is taken.
SpecFetch == FetchInit /\ [][FetchNext]_vars /\ WF_vars(FetchNext)

FetchDone == procs.pc \in {"returned", "threw"}

RateLimited(entry) == entry.result.kind = "response" /\ entry.result.status = 429

\* After a 429: the seconds of the header when it names seconds, else the
\* exponential delay of the attempt.
DelaysAsStated ==
    \A i \in DOMAIN procs.log :
        RateLimited(procs.log[i])
        => /\ \A h \in HeaderSeconds :
                procs.log[i].result.retryAfter = h[1] => procs.log[i].delay = <<h[2] * 1000>>
           /\ procs.log[i].result.retryAfter = Null
                => procs.log[i].delay = <<procs.baseDelay * Pow2(i - 1)>>

\* C23: fetchWithRetry ends, having made at most maxRetries requests, with a
\* successful response or an error; after a 429 it sleeps the seconds of
\* Retry-After when the header gives them and baseDelay * 2^attempt when there
\* is no header; when every attempt is answered 429 it throws.
C23_FetchWithRetryTerminates ==
    /\ <>FetchDone
    /\ [](procs.requests <= procs.maxRetries /\ procs.requests = Len(procs.log))
    /\ [](procs.pc = "returned" => ResponseOk(procs.log[Len(procs.log)].result))
    /\ []DelaysAsStated
    /\ []((FetchDone /\ \A i \in DOMAIN procs.log : RateLimited(procs.log[i]))
            => procs.pc = "threw")

\* Three requests, all answered 429, one with Retry-After: 2 and one without
\* the header; the call has thrown.
C23_Witness ==
    /\ procs.pc = "threw"
    /\ procs.requests = DefaultMaxRetries
    /\ \A i \in DOMAIN procs.log : RateLimited(procs.log[i])
    /\ \E i, j \in DOMAIN procs.log :
          /\ procs.log[i].result.retryAfter = Some(<<"2">>) /\ procs.log[i].delay = <<2000>>
          /\ j > 1 /\ procs.log[j].result.retryAfter = Null
          /\ procs.log[j].delay = <<procs.baseDelay * Pow2(j - 1)>>

(***************************************************************************)
(* scripts/extract-addresses-from-descriptions.ts                          *)
(***************************************************************************)
TEXT_NO_DESCRIPTION ==
    <<"N", "o", " ", "d", "e", "s", "c", "r", "i", "p", "t", "i", "o", "n", " ",
      "a", "v", "a", "i", "l", "a", "b", "l", "e">>

TEXT_DESCRIPTION_UNAVAILABLE ==
    <<"D", "e", "s", "c", "r", "i", "p", "t", "i", "o", "n", " ",
      "u", "n", "a", "v", "a", "i", "l", "a", "b", "l", "e">>

\* WHERE (street IS NULL OR street = '') AND description is not empty and not
\* a placeholder AND latitude IS NOT NULL AND longitude IS NOT NULL; the
\* status is not looked at.
ExtractSelected(table) ==
    { k \in DOMAIN table :
        /\ table[k].street = Null \/ table[k].street = Some(EmptyText)
        /\ table[k].description
                \notin {EmptyText, TEXT_NO_DESCRIPTION, TEXT_DESCRIPTION_UNAVAILABLE} }

\* UPDATE jobs SET street = $1, status = 'APPROVED' WHERE id = $2, when the
\* reverse lookup of the stored coordinates has a street; a throw of the
\* lookup is caught by the loop.
ExtractByReverse(row, reversed) ==
    IF reversed.threw THEN row
    ELSE IF reversed.address # Null /\ Truthy(reversed.address[1].street)
    THEN [row EXCEPT !.street = reversed.address[1].street, !.status = "APPROVED"]
    ELSE row

ExtractRowKeepsStatus(row, cache, token, draw) == [row |-> row, cache |-> cache]

\* One iteration of the loop: the address found in the description is
\* geocoded as "address, city, state"; without a result, or without an
\* address, the stored coordinates are reverse geocoded.
ExtractRow(row, cache, token, draw) ==
    LET extracted == ExtractedStreet[row.description]
        reversed == reverseGeocode(token, draw.answer)
    IN  IF Truthy(extracted)
        THEN LET fullAddress ==
                     IF Truthy(row.city) /\ Truthy(row.state)
                     THEN extracted[1] \o CommaSpace \o row.city[1] \o CommaSpace \o row.state[1]
                     ELSE extracted[1]
                 geocodeResult == geocodeAddressSafe(cache, AddressOfString(fullAddress), token,
                                                     draw.readOk, draw.main, draw.writeOk)
             IN  IF geocodeResult.result # Null
                 THEN [row |-> [row EXCEPT
                                  !.street = extracted,
                                  !.latitude = geocodeResult.result[1][2],
                                  !.longitude = geocodeResult.result[1][1],
                                  !.locationPoint = MakePoint(geocodeResult.result[1][1],
                                                              geocodeResult.result[1][2]),
                                  !.status = "APPROVED"],
                       cache |-> geocodeResult.cache]
                 ELSE [row |-> ExtractByReverse(row, reversed), cache |-> geocodeResult.cache]
        ELSE [row |-> ExtractByReverse(row, reversed), cache |-> cache]

\* The loop over the selected rows in the order `order`.
RECURSIVE ExtractRows(_, _, _, _, _)
ExtractRows(table, cache, order, token, draws) ==
    IF order = <<>> THEN [table |-> table, cache |-> cache]
    ELSE LET k == Head(order)
             res == ExtractRow(table[k], cache, token, draws[k])
         IN  ExtractRows([table EXCEPT ![k] = res.row], res.cache, Tail(order), token, draws)

\* What the services answer for one row.
ExtractDraws ==
    [readOk : BOOLEAN, writeOk : {TRUE},
     main : {m \in MainResponses : m.kind = "empty" \/ m.center = CoordTempe},
     answer : PassAnswers]

RowOrders(keys) ==
    { order \in [1..Cardinality(keys) -> keys] :
        \A i, j \in DOMAIN order : i # j => order[i] # order[j] }

\* One run of the script.
ExtractAddressesPass ==
    \E order \in RowOrders(ExtractSelected(jobs)),
       draws \in [ExtractSelected(jobs) -> ExtractDraws] :
        \E res \in {ExtractRows(jobs, geocodeCache, order, mapboxToken, draws)} :
            /\ jobs' = res.table
            /\ geocodeCache' = res.cache
            /\ lastOp' = Op("extract", NoData, NoResult, 1 - lastOp.seq, FALSE)
            /\ UNCHANGED <<nextId, now, mapboxToken, geoLast>>

\* update-street-addresses, as a step that is told apart from the others.
StreetPassStep ==
    \E answers \in [StreetPassSelected(jobs) -> ReverseResponses] :
        /\ jobs' = [k \in DOMAIN jobs |->
                       IF k \in StreetPassSelected(jobs)
                       THEN StreetPassRow(jobs[k], reverseGeocode(mapboxToken, answers[k]))
                       ELSE jobs[k]]
        /\ lastOp' = Op("streets", NoData, NoResult, 1 - lastOp.seq, FALSE)

\* Postings that come without a street: ingested ones, with the status left
\* out or REJECTED, and a submitted one.
MaintenanceInputs ==
    { [JobInput("ADZUNA", "a1", TitleNurse, Null, CoordPhoenix, st)
            EXCEPT !.description = d] :
        st \in {Undefined, "REJECTED"}, d \in {DescPlain, DescWithAddress} }
    \cup { JobInput("MANUAL", "m1", TitleDev, Null, CoordPhoenix, Undefined),
           JobInput("MANUAL", "m1", TitleDev, Some(StreetMain), CoordPhoenix, "APPROVED") }

MaintenanceInit ==
    /\ StoreInit
    /\ procs = NoProcs
    /\ geocodeCache = <<>>
    /\ mapboxToken \in BOOLEAN
    /\ geoLast = [address |-> AddressEmpty, key |-> <<>>, out |-> NoGeoCall,
                  prior |-> NoGeoCall]
    /\ CacheIdle

MaintenanceNext ==
    \/ (\E data \in MaintenanceInputs : Upsert(data)) /\ UNCHANGED <<procs, geoVars, cacheVars>>
    \/ AdminApprove /\ UNCHANGED <<procs, geoVars, cacheVars>>
    \/ AdminReject /\ UNCHANGED <<procs, geoVars, cacheVars>>
    \/ StreetPassStep /\ UNCHANGED <<nextId, now, procs, geoVars, cacheVars>>
    \/ ExtractAddressesPass /\ UNCHANGED <<procs, cacheVars>>

SpecMaintenance == MaintenanceInit /\ [][MaintenanceNext]_vars

\* C25: a posting that is stored REJECTED or PENDING becomes APPROVED only by
\* the admin approve action or by an upsert of its identity whose input names
\* APPROVED; no maintenance script makes it APPROVED.
C25_ScriptsNeverApprove ==
    [][\A k \in DOMAIN jobs :
          (jobs[k].status # "APPROVED" /\ k \in DOMAIN jobs' /\ jobs'[k].status = "APPROVED")
          => /\ lastOp'.seq # lastOp.seq
             /\ \/ lastOp'.op = "moderate"
                \/ /\ lastOp'.op = "upsert"
                   /\ IdentityOf(lastOp'.data) = k
                   /\ lastOp'.data.status = "APPROVED"]_vars

(***************************************************************************)
(* routes/employer.ts: the rate limit of submissions                       *)
(***************************************************************************)
RATE_LIMIT_WINDOW == 3600000

RATE_LIMIT_MAX == 5

\* The clock of the limiter moves by the length of the window, MaxTicks times.
TickMs == RATE_LIMIT_WINDOW

MaxTicks == 2

ClientKeys == {"ip1", "ip2"}

checkRateLimitResetsAtBoundary(store, ip, t) ==
    IF ip \notin DOMAIN store \/ t >= store[ip].resetAt
    THEN [store |-> Put(store, ip, [count |-> 1, resetAt |-> t + RATE_LIMIT_WINDOW]),
          allowed |-> TRUE, remaining |-> RATE_LIMIT_MAX - 1]
    ELSE IF store[ip].count >= RATE_LIMIT_MAX
    THEN [store |-> store, allowed |-> FALSE, remaining |-> 0]
    ELSE [store |-> [store EXCEPT ![ip].count = @ + 1],
          allowed |-> TRUE, remaining |-> RATE_LIMIT_MAX - (store[ip].count + 1)]

\* checkRateLimit(ip) at Date.now() = t against rateLimitStore = store.
checkRateLimit(store, ip, t) ==
    IF ip \notin DOMAIN store \/ t > store[ip].resetAt
    THEN [store |-> Put(store, ip, [count |-> 1, resetAt |-> t + RATE_LIMIT_WINDOW]),
          allowed |-> TRUE, remaining |-> RATE_LIMIT_MAX - 1]
    ELSE IF store[ip].count >= RATE_LIMIT_MAX
    THEN [store |-> store, allowed |-> FALSE, remaining |-> 0]
    ELSE [store |-> [store EXCEPT ![ip].count = @ + 1],
          allowed |-> TRUE, remaining |-> RATE_LIMIT_MAX - (store[ip].count + 1)]

\* The body of the setInterval callback at Date.now() = t.
sweepRateLimitStore(store, t) ==
    [ip \in {k \in DOMAIN store : ~(t > store[k].resetAt)} |-> store[ip]]

NoWindow == [start |-> 0, allowed |-> 0]

\* The window of one hour that the first allowed call opens, with the number
\* of allowed calls in it, after one more allowed call at t.
WindowAfter(window, t) ==
    IF window = NoWindow \/ t > window.start + RATE_LIMIT_WINDOW
    THEN [start |-> t, allowed |-> 1]
    ELSE [window EXCEPT !.allowed = @ + 1]

\* A call of checkRateLimit, as the first statement of POST /v1/employer/post;
\* history keeps the window of the allowed calls of each key.
CheckRateLimit(ip) ==
    \E res \in {checkRateLimit(procs.store, ip, now)} :
        /\ procs' = [store |-> res.store,
                     history |-> IF res.allowed
                                 THEN [procs.history EXCEPT ![ip] = WindowAfter(@, now)]
                                 ELSE procs.history,
                     last |-> [kind |-> "check", ip |-> ip, allowed |-> res.allowed,
                               fresh |-> ip \notin DOMAIN procs.store,
                               expired |-> ip \in DOMAIN procs.store
                                           /\ now > procs.store[ip].resetAt,
                               same |-> res.store = procs.store]]
        /\ UNCHANGED <<storeVars, geoVars, cacheVars>>

RateLimitSweep ==
    /\ procs' = [procs EXCEPT !.store = sweepRateLimitStore(procs.store, now),
                              !.last = [kind |-> "sweep"]]
    /\ UNCHANGED <<storeVars, geoVars, cacheVars>>

RateLimitTick ==
    /\ now < MaxTicks * TickMs
    /\ now' = now + TickMs
    /\ procs' = [procs EXCEPT !.last = [kind |-> "tick"]]
    /\ UNCHANGED <<jobs, nextId, lastOp, geoVars, cacheVars>>

RateLimitInit ==
    /\ StoreInit
    /\ procs = [store |-> <<>>, history |-> [ip \in ClientKeys |-> NoWindow],
                last |-> [kind |-> "none"]]
    /\ GeoIdle
    /\ CacheIdle

RateLimitNext ==
    \/ \E ip \in ClientKeys : CheckRateLimit(ip)
    \/ RateLimitSweep
    \/ RateLimitTick

SpecRateLimit == RateLimitInit /\ [][RateLimitNext]_vars

AtMostMaxPerWindow ==
    \A ip \in ClientKeys : procs.history[ip].allowed <= RATE_LIMIT_MAX

DecisionsAsStated ==
    procs.last.kind = "check"
    => /\ ~procs.last.allowed => procs.last.same
       /\ (procs.last.fresh \/ procs.last.expired)
            => /\ procs.last.allowed
               /\ procs.store[procs.last.ip]
                    = [count |-> 1, resetAt |-> now + RATE_LIMIT_WINDOW]

\* A sweep removes the entries past their reset time and no other, and every
\* later call is decided and recorded as without the sweep.
SweepKeepsDecisions ==
    procs'.last.kind = "sweep"
    => /\ \A ip \in DOMAIN procs.store :
             ip \in DOMAIN procs'.store <=> ~(now > procs.store[ip].resetAt)
       /\ \A ip \in ClientKeys, n \in 0..MaxTicks :
             LET with == checkRateLimit(procs'.store, ip, now + n * TickMs)
                 without == checkRateLimit(procs.store, ip, now + n * TickMs)
             IN  /\ with.allowed = without.allowed
                 /\ with.store[ip] = without.store[ip]

\* C27: for each client key at most RATE_LIMIT_MAX calls are allowed in the
\* window of one hour that the first allowed call opens; a denied call leaves
\* the store as it was; a call after the reset time (or of an unknown key) is
\* allowed and stores count 1 with a new reset time; the sweep removes only
\* entries past their reset time and changes no decision.
C27_RateLimitWindow ==
    /\ [](AtMostMaxPerWindow /\ DecisionsAsStated)
    /\ [][SweepKeepsDecisions]_vars

\* Five allowed calls of a key in one window, then a denied one at the reset
\* time itself.
C27_Witness ==
    /\ procs.last.kind = "check" /\ ~procs.last.allowed
    /\ procs.history[procs.last.ip].allowed = RATE_LIMIT_MAX
    /\ now = procs.history[procs.last.ip].start + RATE_LIMIT_WINDOW
    /\ now = procs.store[procs.last.ip].resetAt

(***************************************************************************)
(* routes/employer.ts: POST /v1/employer/post, and GET /v1/jobs/:id         *)
(***************************************************************************)
UrlJob == "https://jobs/1"

\* The bodies of the submissions: a complete one, one without hCaptcha.
EmployerBody(street, hCaptcha) ==
    [company |-> CompanyAcme, title |-> TitleDev, description |-> DescWithAddress,
     employmentType |-> Null, payMin |-> Null, payMax |-> Null, url |-> UrlJob,
     street |-> street, city |-> TextPhoenix, state |-> TextAZ, postalCode |-> Text85004,
     country |-> Null, hCaptcha |-> hCaptcha]

EmployerBodies ==
    { EmployerBody(StreetMain, Some(<<"t">>)), EmployerBody(StreetMain, Null) }

\* employerPostSchema.parse(body) succeeds (the optional fields of these
\* bodies are absent).
employerPostSchema(body) ==
    /\ Len(body.company) \in 1..200
    /\ Len(body.title) \in 1..200
    /\ Len(body.description) \in 10..5000
    /\ body.url = UrlJob
    /\ Len(body.street) \in 1..200
    /\ Len(body.city) \in 1..100
    /\ Len(body.state) = 2
    /\ Len(body.postalCode) \in 5..10

\* The sourceId that generateId() makes for the n-th submission.
ManualSourceIds == <<"manual-1", "manual-2", "manual-3">>

\* The number of calls of the handler in a run.
MaxSubmissions == 1

Submissions(rate, ip) == IF ip \in DOMAIN rate THEN rate[ip].count ELSE 0

\* The handler: rate limit, validation, hCaptcha, geocoding, upsertJob.
employerPost(rate, cache, table, id, t, ip, body, sourceId, token, readOk, main, writeOk) ==
    LET rateLimit == checkRateLimit(rate, ip, t)
        country == IF body.country = Null THEN Some(TextUS) ELSE body.country
        geocodeResult ==
            geocodeAddressSafe(cache,
                               Address(Some(body.street), Some(body.city), Some(body.state),
                                       Some(body.postalCode), country),
                               token, readOk, main, writeOk)
    IN  IF ~rateLimit.allowed
        THEN [code |-> 429, rate |-> rateLimit.store, cache |-> cache, table |-> table,
              nextId |-> id]
        ELSE IF ~employerPostSchema(body) \/ ~Truthy(body.hCaptcha)
        THEN [code |-> 400, rate |-> rateLimit.store, cache |-> cache, table |-> table,
              nextId |-> id]
        ELSE IF geocodeResult.result = Null
        THEN [code |-> 422, rate |-> rateLimit.store, cache |-> geocodeResult.cache,
              table |-> table, nextId |-> id]
        ELSE LET res == upsertJob(table,
                                  [source |-> "MANUAL", sourceId |-> sourceId,
                                   title |-> body.title, company |-> body.company,
                                   description |-> body.description, url |-> body.url,
                                   street |-> Some(body.street), city |-> Some(body.city),
                                   state |-> Some(body.state),
                                   postalCode |-> Some(body.postalCode), country |-> country,
                                   latitude |-> geocodeResult.result[1][2],
                                   longitude |-> geocodeResult.result[1][1],
                                   employmentType |-> body.employmentType,
                                   payMin |-> body.payMin, payMax |-> body.payMax,
                                   payCurrency |-> Some("USD"), postedAt |-> t,
                                   status |-> Undefined],
                                  id, t)
             IN  [code |-> IF res.threw THEN 500 ELSE 200, rate |-> rateLimit.store,
                  cache |-> geocodeResult.cache, table |-> res.table,
                  nextId |-> IF res.created THEN id + 1 ELSE id]

ManualRows(table) == {k \in DOMAIN table : table[k].source = "MANUAL"}

\* One POST /v1/employer/post.
EmployerPost(ip, body) ==
    /\ Submissions(procs.store, ip) < MaxSubmissions
    /\ \E readOk \in BOOLEAN,
          main \in {m \in MainResponses : m.kind = "empty" \/ m.center = CoordPhoenix} :
        \E res \in {employerPost(procs.store, geocodeCache, jobs, nextId, now, ip, body,
                                 ManualSourceIds[Cardinality(ManualRows(jobs)) + 1],
                                 mapboxToken, readOk, main, TRUE)} :
            /\ procs' = [procs EXCEPT !.store = res.rate]
            /\ geocodeCache' = res.cache
            /\ jobs' = res.table
            /\ nextId' = res.nextId
            /\ lastReq' = [route |-> "post", code |-> res.code]
    /\ lastOp' = Op("post", NoData, NoResult, 1 - lastOp.seq, FALSE)
    /\ UNCHANGED <<now, mapboxToken, geoLast, redis, cacheStore>>

\* POST /v1/admin/jobs/:id/approve for a stored job; approved remembers the
\* employer submissions the action was applied to.
AdminApproveJob ==
    \E key \in DOMAIN jobs :
        /\ SetStatus(key, "APPROVED")
        /\ procs' = [procs EXCEPT !.approved =
                        @ \cup IF jobs[key].source = "MANUAL" THEN {jobs[key].id} ELSE {}]
        /\ lastReq' = NoRequest
        /\ UNCHANGED <<geoVars, redis, cacheStore>>

jobDetailAnyStatus(table, id) ==
    LET found == {k \in DOMAIN table : table[k].id = id}
    IN  IF found = {} THEN [route |-> "detail", code |-> 404, id |-> id, source |-> "none"]
        ELSE [route |-> "detail", code |-> 200, id |-> id,
              source |-> table[CHOOSE k \in found : TRUE].source]

\* GET /v1/jobs/:id: SELECT ... WHERE id = $1 AND status = 'APPROVED'
jobDetail(table, id) ==
    LET found == {k \in DOMAIN table : table[k].id = id /\ table[k].status = "APPROVED"}
    IN  IF found = {} THEN [route |-> "detail", code |-> 404, id |-> id, source |-> "none"]
        ELSE [route |-> "detail", code |-> 200, id |-> id,
              source |-> table[CHOOSE k \in found : TRUE].source]

JobDetail(id) ==
    /\ lastReq' = jobDetail(jobs, id)
    /\ UNCHANGED <<storeVars, procs, geoVars, redis, cacheStore>>

\* An ingested posting that comes without a street.
EmployerIngestInputs == { JobInput("ADZUNA", "a1", TitleNurse, Null, CoordPhoenix, Undefined) }

Quiet == lastReq' = NoRequest /\ UNCHANGED <<redis, cacheStore>>

EmployerInit ==
    /\ StoreInit
    /\ procs = [store |-> <<>>, approved |-> {}]
    /\ geocodeCache = <<>>
    /\ mapboxToken = TRUE
    /\ geoLast = [address |-> AddressEmpty, key |-> <<>>, out |-> NoGeoCall,
                  prior |-> NoGeoCall]
    /\ redis = TRUE
    /\ cacheStore = <<>>
    /\ lastReq = NoRequest

EmployerNext ==
    \/ \E body \in EmployerBodies : EmployerPost("ip1", body)
    \/ AdminApproveJob
    \/ AdminReject /\ Quiet /\ UNCHANGED <<procs, geoVars>>
    \/ (\E data \in EmployerIngestInputs : Upsert(data)) /\ Quiet /\ UNCHANGED <<procs, geoVars>>
    \/ StreetPassStep /\ Quiet /\ UNCHANGED <<nextId, now, procs, geoVars>>
    \/ ExtractAddressesPass /\ Quiet /\ UNCHANGED procs
    \/ Search(SearchAll) /\ UNCHANGED <<storeVars, procs, geoVars>>
    \/ (\E id \in 1..(MaxSubmissions + 1) : JobDetail(id))

SpecEmployer == EmployerInit /\ [][EmployerNext]_vars

\* C26: a posting created by POST /v1/employer/post is in no response of the
\* search and in no response of the detail fetch unless the admin approve
\* action has been applied to it, whatever ingestion, moderation, street
\* scripts and requests have run in between.
C26_SubmissionHiddenUntilApproved ==
    /\ (lastReq.route = "search" /\ lastReq.code = 200)
        => \A i \in DOMAIN Pins :
              Pins[i].source = "MANUAL" => Pins[i].id \in procs.approved
    /\ (lastReq.route = "detail" /\ lastReq.code = 200 /\ lastReq.source = "MANUAL")
        => lastReq.id \in procs.approved

\* A search that returns an ingested posting and leaves out a submission that
\* is still pending, after the street scripts have run.
C26_Witness ==
    /\ lastReq.route = "search" /\ lastReq.code = 200
    /\ lastOp.op = "extract"
    /\ \E i \in DOMAIN Pins : Pins[i].source = "ADZUNA"
    /\ \A i \in DOMAIN Pins : Pins[i].source # "MANUAL"
    /\ \E k \in ManualRows(jobs) : jobs[k].status = "PENDING" /\ jobs[k].id \notin procs.approved

(***************************************************************************)
(* The search route: requests that share a cache key                       *)
(***************************************************************************)
\* Requests that name the employment type by type, by types, by both, or
\* not at all; with and without the other filters.
KeyQueries ==
    { Query(Null, Null, Null, Null),
      Query(Null, Some("CONTRACT"), Null, Null),
      Query(Null, Null, Some(<<"CONTRACT">>), Null),
      Query(Null, Some("FULL_TIME"), Some(<<"CONTRACT">>), Null),
      Query(Null, Some("FULL_TIME"), Null, Null),
      [Query(RawInt(50), Null, Null, Null) EXCEPT !.q = Some(<<>>)],
      Query(RawInt(50), Null, Null, Null),
      [Query(Null, Null, Null, RawInt(2)) EXCEPT !.maxAgeDays = RawInt(1)] }

KeyInit ==
    /\ jobs \in PayTables
    /\ nextId = Cardinality(DOMAIN jobs) + 1
    /\ now = 0
    /\ lastOp = Op("none", NoData, NoResult, 0, FALSE)
    /\ procs = NoProcs
    /\ GeoIdle
    /\ redis = TRUE
    /\ cacheStore = <<>>
    /\ lastReq = NoRequest

KeyNext ==
    \/ (\E query \in KeyQueries : SearchRequest(query))
            /\ UNCHANGED <<storeVars, procs, geoVars>>
    \/ CacheExpire /\ UNCHANGED <<storeVars, procs, geoVars>>

SpecKey == KeyInit /\ [][KeyNext]_vars

\* The rows of the tables, as stored.
KeyRows == {TableOf(PayRows)[k] : k \in DOMAIN TableOf(PayRows)}

\* Two parameter records build the same query: the same envelope and limit,
\* and a WHERE clause that holds of the same rows on every day.
SameQuery(p1, p2) ==
    /\ p1.bbox = p2.bbox
    /\ p1.limit = p2.limit
    /\ \A row \in KeyRows, today \in 0..MaxNow :
          SearchWhere(row, p1, today) <=> SearchWhere(row, p2, today)

KeyParams == {searchQuerySchema(query).params : query \in KeyQueries}

\* C28: two search requests with the same cache key build the same query, and
\* a response served from the cache was computed by a request that built the
\* query of the request it is served to.
C28_SameKeySameQuery ==
    /\ lastReq = NoRequest
        => \A p1, p2 \in KeyParams :
              SearchCacheKey(p1) = SearchCacheKey(p2) => SameQuery(p1, p2)
    /\ (lastReq.route = "search" /\ lastReq.code = 200 /\ lastReq.xCache = "HIT")
        => /\ lastReq.entry # Null
           /\ SameQuery(lastReq.entry[1].writer.params, lastReq.params)

\* A request with type=CONTRACT is served what a request with types=CONTRACT
\* had stored.
C28_Witness ==
    /\ lastReq.route = "search" /\ lastReq.code = 200 /\ lastReq.xCache = "HIT"
    /\ lastReq.params.type = Some("CONTRACT") /\ lastReq.params.types = Null
    /\ lastReq.entry[1].writer.params.types = Some(<<"CONTRACT">>)
    /\ lastReq.entry[1].writer.params.type = Null
    /\ Len(Pins) = 1

(***************************************************************************)
(* ingest/adzuna.ts: the extracted street address geocoded again           *)
(***************************************************************************)
\* locationParts.city && locationParts.state
\*   ? `${extractedStreetAddress}, ${city}, ${state}` : extractedStreetAddress
AddressWithCity(extracted, city, state) ==
    IF Truthy(city) /\ Truthy(state)
    THEN extracted \o CommaSpace \o city[1] \o CommaSpace \o state[1]
    ELSE extracted

\* geocodeAddressSafe(addressWithCity) of a normalizer, with the address
\* object, the query and the cache key that geocodeAddress works with.
Regeocode(extracted, city, state) ==
    \E readOk \in BOOLEAN, writeOk \in BOOLEAN, main \in MainResponses :
        \E text \in {AddressWithCity(extracted, city, state)} :
            \E addressObj \in {AddressOfString(text)} :
                \E res \in {geocodeAddressSafe(geocodeCache, addressObj, mapboxToken,
                                               readOk, main, writeOk)} :
                    /\ geocodeCache' = res.cache
                    /\ geoLast' = [op |-> "regeocode", street |-> extracted, city |-> city,
                                   state |-> state, text |-> text, address |-> addressObj,
                                   query |-> MapboxQuery(addressObj),
                                   key |-> normalizeAddressKey(addressObj),
                                   result |-> res.result]
                    /\ UNCHANGED mapboxToken

RegeocodeInit ==
    /\ StoreInit
    /\ procs = NoProcs
    /\ geocodeCache = <<>>
    /\ mapboxToken = TRUE
    /\ geoLast = [op |-> "none"]
    /\ CacheIdle

RegeocodeNext ==
    (\E extracted \in {StreetOak, StreetMain}, city \in {Some(TextPhoenix), Null},
        state \in {Some(TextAZ)} : Regeocode(extracted, city, state))
    /\ UNCHANGED <<storeVars, procs, cacheVars>>

SpecRegeocode == RegeocodeInit /\ [][RegeocodeNext]_vars

\* C29: when a normalizer passes "street, city, state" to geocodeAddressSafe,
\* the address object given to geocodeAddress has that street as street, that
\* city as city and that state as state, and the query and the cache key
\* contain the three.
C29_RegeocodeKeepsComponents ==
    (geoLast.op = "regeocode" /\ Truthy(geoLast.city) /\ Truthy(geoLast.state))
    => /\ geoLast.address.street = Some(geoLast.street)
       /\ geoLast.address.city = geoLast.city
       /\ geoLast.address.state = geoLast.state
       /\ geoLast.query = geoLast.street \o CommaSpace \o geoLast.city[1] \o CommaSpace
                            \o geoLast.state[1] \o CommaSpace \o TextUS

\* C30: in the metrics that a completed ingestAdzuna run returns, every fetched
\* posting is counted once: fetched = normalized + failed and
\* normalized = created + updated, also when upsertJob throws for a posting.
C30_MetricsAddUp ==
    LET last == procs["run"].last
    IN  (last.source = "ADZUNA" /\ last.fetchOk /\ ~last.threw)
        => /\ last.metrics.fetched = last.metrics.normalized + last.metrics.failed
           /\ last.metrics.normalized = last.metrics.created + last.metrics.updated

====
